---- MODULE Spec2Model ----
(***************************************************************************)
(* ClipKeeper: clipboard capture pipeline (monitor.py) and the             *)
(* content-addressed store (database.py).                                  *)
(*                                                                         *)
(* Data conventions.  A text is a sequence of one-character strings; image *)
(* bytes are a sequence of strings starting with "PNG"; a content hash is  *)
(* the sequence <<"sha256">> \o data (SHA-256 taken as collision free);    *)
(* Python's None is the empty sequence where a text, bytes or a hash is    *)
(* expected.                                                               *)
(***************************************************************************)
EXTENDS Naturals, Integers, Sequences, FiniteSets, Bags, TLC

VARIABLES
    \* ---- database.py: Database ----
    clips,              \* rows of table clips
    next_id,            \* AUTOINCREMENT counter of clips.id
    now,                \* last value returned by time.time()
    max_history,        \* settings row "max_history"
    script_path,        \* settings row "script_path" names an existing script
    remove_failed,      \* ids of the deleted rows whose blob files were left on
                        \* disk because os.remove raised OSError
    image_files,        \* hashes H whose files H.png and H_thumb.png are in
                        \* IMAGES_DIR; DiskUnobserved in the runs that keep no
                        \* record of the directory
    add_pc,             \* position of each thread inside Database.add_clip
    add_count,          \* count - max_items of _auto_cleanup in each thread
    last_call,          \* the value returned by add_clip when it was the last call
    collections,        \* ids of the rows of table collections
    returned,           \* what the last toggle_* or update_clip_text call
                        \* returned: "True" or "False", "none" before
    \* ---- monitor.py: ClipboardMonitor ----
    clipboard,          \* content currently offered by the system clipboard
    paused,             \* self._paused
    is_incognito,       \* self._is_incognito
    last_hash,          \* self.last_hash
    inflight,           \* bag of asynchronous clipboard reads not yet completed
    wl_stdout,          \* lines written by wl-paste --watch, not yet read
    idle_queue,         \* callbacks posted with GLib.idle_add, not yet run
    image_queue,        \* self._image_queue
    main_pc,            \* position of the owning context inside a handler
    pending_job,        \* job being enqueued while main_pc # "idle"
    worker_pc,          \* position of the image worker thread
    worker_item,        \* job held by the image worker
    image_worker_stop,  \* self._image_worker_stop
    poll_source_id,     \* self._poll_source_id is set
    wl_paste,           \* the wl-paste --watch subprocess: "absent", "running", "terminated"
    wl_image_watch_process, \* self._wl_image_watch_process holds the Popen handle
    wl_image_watch_active,  \* self._wl_image_watch_active
    watch_pc,           \* position of the watcher thread
    emit_queue,         \* clip ids posted with GLib.idle_add(self._emit_new_clip, id)
    title_fetch,        \* clip ids whose URL title is being fetched
    \* ---- _mark_hash_if_new under concurrent callers ----
    state_lock,         \* the caller holding self._state_lock, or 0
    gate_pc,            \* position of each caller inside _mark_hash_if_new
    gate_arg,           \* content_hash argument of each caller
    gate_ret,           \* value returned to each caller
    gate_seen,          \* last_hash as it was when the caller took the lock
    \* ---- observation of the run (history variables) ----
    mid_reads,          \* reads issued with a read in flight since a read last completed
    epoch_accepts,      \* gate acceptances since the clipboard last changed
    epoch_clean,        \* only the current clipboard content was observed since
    submit_log,         \* a text not stored before that reached the gate, n times in a row
    notified,           \* how often new-clip was emitted for each clip id (up to 2)
    job_log,            \* "raised" once a worker job has raised, "recovered" once a
                        \* job has been stored after that, "none" before
    negotiation,        \* "error" once get_formats() has raised, "retried" once a
                        \* read was issued after that, "none" before; "unobserved"
                        \* in the runs that keep no record of it
    \* ---- a pure function applied to drawn arguments ----
    fn_args,            \* the arguments drawn for the function
    fn_result           \* its result, NotRun before the call

vars == <<clips, next_id, now, max_history, script_path, remove_failed, last_call,
          collections, returned, image_files, add_pc, add_count,
          clipboard, paused, is_incognito, last_hash, inflight, wl_stdout,
          idle_queue, image_queue, main_pc, pending_job, worker_pc,
          worker_item, image_worker_stop, poll_source_id,
          wl_paste, wl_image_watch_process, wl_image_watch_active, watch_pc,
          emit_queue, title_fetch, notified, job_log,
          state_lock, gate_pc, gate_arg, gate_ret, gate_seen,
          mid_reads, epoch_accepts, epoch_clean, submit_log, negotiation,
          fn_args, fn_result>>

dbVars == <<clips, next_id, now, max_history, script_path, remove_failed,
            image_files>>
monitorVars == <<clipboard, paused, is_incognito, last_hash, inflight,
                 wl_stdout, idle_queue, image_queue, main_pc, pending_job,
                 worker_pc, worker_item, image_worker_stop, poll_source_id>>
gateVars == <<state_lock, gate_pc, gate_arg, gate_ret, gate_seen>>
obsVars == <<mid_reads, epoch_accepts, epoch_clean, submit_log, negotiation>>
fnVars == <<fn_args, fn_result>>
uiVars == <<collections, returned>>
threadVars == <<add_pc, add_count>>
watchVars == <<wl_paste, wl_image_watch_process, wl_image_watch_active, watch_pc>>
emitVars == <<emit_queue, title_fetch, notified>>

----------------------------------------------------------------------------
\* Bounds of the model.

\* largest value of the clock; every time.time() call advances it by one
MaxTime == 3
\* largest number of rows ever inserted
MaxRows == 3
\* capacity of the image queue (queue.Queue(maxsize=128) in the program)
QueueMaxSize == 2
\* largest number of clipboard reads in flight
MaxInflight == 3
\* largest number of unread watcher lines / pending idle callbacks
MaxPosted == 1
\* longest text given to the script filter
MaxTextLen == 3
\* number of concurrent callers of the gate
NumCallers == 3

----------------------------------------------------------------------------
\* Values.

None == <<>>

\* utils.compute_hash: SHA-256 of the bytes, injective on the modelled data
compute_hash(data) == <<"sha256">> \o data

\* the whitespace characters of the modelled texts
Whitespace == {" ", "\t", "\n"}

\* str.strip(): drop leading and trailing whitespace
RECURSIVE lstrip(_)
lstrip(s) == IF s # <<>> /\ Head(s) \in Whitespace THEN lstrip(Tail(s)) ELSE s

RECURSIVE rstrip(_)
rstrip(s) ==
    IF s # <<>> /\ s[Len(s)] \in Whitespace
    THEN rstrip(SubSeq(s, 1, Len(s) - 1))
    ELSE s

strip(s) == rstrip(lstrip(s))

\* " ".join(s.split()) for a text that neither starts nor ends with
\* whitespace: every run of whitespace becomes one space
join_split(s) ==
    LET marked == [i \in 1..Len(s) |->
                     [ch |-> IF s[i] \in Whitespace THEN " " ELSE s[i],
                      keep |-> \/ s[i] \notin Whitespace
                               \/ i > 1 /\ s[i - 1] \notin Whitespace]]
        kept == SelectSeq(marked, LAMBDA m : m.keep)
    IN  [i \in 1..Len(kept) |-> kept[i].ch]

\* length of the preview of a text (120 in the program: truncate_text(text,
\* 120) at every call)
PreviewLen == 4

\* utils.truncate_text; "..." stands for the one character U+2026
truncate_text(text, max_len) ==
    LET cleaned == join_split(strip(text))
    IN  IF Len(cleaned) <= max_len THEN cleaned
        ELSE SubSeq(cleaned, 1, max_len - 1) \o <<"...">>

----------------------------------------------------------------------------
\* content_detector.py: the classification of a text.  A text is a sequence
\* of characters; the patterns are translated for the characters and the
\* words of the texts drawn in DetectTexts.

Digit == {"0", "1", "2", "3", "4", "5", "6", "7", "8", "9"}
UpperLetters ==
    <<"A", "B", "C", "D", "E", "F", "G", "H", "I", "J", "K", "L", "M",
      "N", "O", "P", "Q", "R", "S", "T", "U", "V", "W", "X", "Y", "Z">>
LowerLetters ==
    <<"a", "b", "c", "d", "e", "f", "g", "h", "i", "j", "k", "l", "m",
      "n", "o", "p", "q", "r", "s", "t", "u", "v", "w", "x", "y", "z">>
Upper == {UpperLetters[i] : i \in 1..26}
Lower == {LowerLetters[i] : i \in 1..26}

\* the character as re.IGNORECASE compares it
lower(c) ==
    IF c \in Upper
    THEN LowerLetters[CHOOSE i \in 1..26 : UpperLetters[i] = c]
    ELSE c

\* n characters of the class C stand at position i of s
Run(s, i, n, C) == i + n - 1 <= Len(s) /\ \A j \in i..(i + n - 1) : s[j] \in C

\* the word w stands at position i of s; LitCI compares as re.IGNORECASE does
Lit(s, i, w) == i + Len(w) - 1 <= Len(s) /\ SubSeq(s, i, i + Len(w) - 1) = w
LitCI(s, i, w) ==
    /\ i + Len(w) - 1 <= Len(s)
    /\ \A j \in 1..Len(w) : lower(s[i + j - 1]) = w[j]

\* the number of characters of s that are in C
occurrences(s, C) == Cardinality({i \in 1..Len(s) : s[i] \in C})

\* HEX_COLOR_PATTERN ^#(?:[0-9a-fA-F]{3}){1,2}$ matches s
HEX_COLOR_PATTERN(s) ==
    /\ Len(s) \in {4, 7}
    /\ s[1] = "#"
    /\ Run(s, 2, Len(s) - 1,
           Digit \cup {"a", "b", "c", "d", "e", "f", "A", "B", "C", "D", "E", "F"})

\* RGB_COLOR_PATTERN (?:rgb|hsl)a?\(\s*\d+ (IGNORECASE) matches at the start of s
RGB_COLOR_PATTERN(s) ==
    \E k \in {3, 4} :
        /\ LitCI(s, 1, <<"r", "g", "b">>) \/ LitCI(s, 1, <<"h", "s", "l">>)
        /\ k = 4 => LitCI(s, 4, <<"a">>)
        /\ Lit(s, k + 1, <<"(">>)
        /\ \E j \in (k + 2)..Len(s) :
              /\ Run(s, k + 2, j - (k + 2), Whitespace)
              /\ s[j] \in Digit

\* URL_PATTERN https?://[^\s<>"')\]]+ (IGNORECASE) matches at position i
URL_PATTERN(s, i) ==
    \E k \in {4, 5} :
        /\ LitCI(s, i, <<"h", "t", "t", "p">>)
        /\ k = 5 => LitCI(s, i + 4, <<"s">>)
        /\ Lit(s, i + k, <<":", "/", "/">>)
        /\ i + k + 3 <= Len(s)
        /\ s[i + k + 3] \notin Whitespace \cup {"<", ">", "\"", "'", ")", "]"}

\* ContentDetector._is_url: at most three lines, and URL_PATTERN matches at
\* the start of the stripped first line
is_url(text) ==
    LET t == strip(text)
        first == IF occurrences(t, {"\n"}) = 0 THEN t
                 ELSE SubSeq(t, 1, (CHOOSE i \in 1..Len(t) :
                                      /\ t[i] = "\n"
                                      /\ \A j \in 1..(i - 1) : t[j] # "\n") - 1)
    IN  /\ occurrences(t, {"\n"}) + 1 <= 3
        /\ URL_PATTERN(strip(first), 1)
        /\ Len(strip(first)) < 2048

\* ContentDetector._is_email: EMAIL_PATTERN
\* [a-zA-Z0-9._%+-]+@[a-zA-Z0-9.-]+\.[a-zA-Z]{2,} matches the whole text
is_email(text) ==
    LET s == strip(text)
    IN  /\ occurrences(s, {"\n"}) = 0
        /\ Len(s) <= 254
        /\ \E at \in 2..Len(s), dot \in 4..Len(s) :
              /\ s[at] = "@"
              /\ Run(s, 1, at - 1, Upper \cup Lower \cup Digit \cup {".", "_", "%", "+", "-"})
              /\ dot > at + 1
              /\ Run(s, at + 1, dot - at - 1, Upper \cup Lower \cup Digit \cup {".", "-"})
              /\ s[dot] = "."
              /\ Len(s) - dot >= 2
              /\ Run(s, dot + 1, Len(s) - dot, Upper \cup Lower)

\* ContentDetector._is_phone: 7 to 15 digits once the formatting characters
\* are removed, and PHONE_PATTERN
\* (?:\+?\d{1,3}[\s\-.]?)?\(?\d{2,4}\)?[\s\-.]?\d{3,4}[\s\-.]?\d{2,4}
\* matches at the start; g holds the widths of the parts of the optional
\* first group
is_phone(text) ==
    LET s == strip(text)
        digits_only ==
            SelectSeq(s, LAMBDA c : c \notin Whitespace \cup {"-", "(", ")", ".", "+"})
        Sep == Whitespace \cup {"-", "."}
    IN  /\ digits_only # <<>>
        /\ \A i \in 1..Len(digits_only) : digits_only[i] \in Digit
        /\ Len(digits_only) >= 7
        /\ Len(digits_only) <= 15
        /\ \E g \in {<<0, 0, 0>>}
                       \cup {<<plus, a, s1>> : plus \in {0, 1}, a \in 1..3, s1 \in {0, 1}} :
           \E po \in {0, 1}, b \in 2..4, pc \in {0, 1}, s2 \in {0, 1}, c \in 3..4,
              s3 \in {0, 1}, d \in 2..4 :
              LET p1 == 1 + g[1] + g[2] + g[3]
                  p2 == p1 + po
                  p3 == p2 + b
                  p4 == p3 + pc
                  p5 == p4 + s2
                  p6 == p5 + c
                  p7 == p6 + s3
              IN  /\ g[1] = 1 => Lit(s, 1, <<"+">>)
                  /\ Run(s, 1 + g[1], g[2], Digit)
                  /\ g[3] = 1 => Run(s, 1 + g[1] + g[2], 1, Sep)
                  /\ po = 1 => Lit(s, p1, <<"(">>)
                  /\ Run(s, p2, b, Digit)
                  /\ pc = 1 => Lit(s, p3, <<")">>)
                  /\ s2 = 1 => Run(s, p4, 1, Sep)
                  /\ Run(s, p5, c, Digit)
                  /\ s3 = 1 => Run(s, p6, 1, Sep)
                  /\ Run(s, p7, d, Digit)

\* ContentDetector._is_code.  Of CODE_MARKERS only ^#!/, ^\s*//\s and
\* ^\s*#\s(?![\!]) (MULTILINE) can match a text of DetectTexts: every other
\* marker needs a keyword or one of the characters { } [ ] ; = > < that no
\* text drawn contains.  The score adds the markers that match, one for more
\* than 8 % special characters (the backquote, which no text drawn contains,
\* is left out of the class) and one for at least three lines of which more
\* than 40 % are indented.
is_code(text) ==
    LET line_start(i) == i = 1 \/ text[i - 1] = "\n"
        indent_to(p) ==
            \E i \in 1..p : line_start(i) /\ \A j \in i..(p - 1) : text[j] \in Whitespace
        bool(b) == IF b THEN 1 ELSE 0
        shebang == \E i \in 1..Len(text) : line_start(i) /\ Lit(text, i, <<"#", "!", "/">>)
        slashes == \E p \in 1..Len(text) :
                      /\ indent_to(p)
                      /\ Lit(text, p, <<"/", "/">>)
                      /\ Run(text, p + 2, 1, Whitespace)
        hash == \E p \in 1..Len(text) :
                   /\ indent_to(p)
                   /\ text[p] = "#"
                   /\ Run(text, p + 1, 1, Whitespace)
                   /\ ~Lit(text, p + 2, <<"!">>)
        special == occurrences(text, {"{", "}", "[", "]", "(", ")", ";", "=", "<", ">", "|",
                                "&", "!", "@", "#", "$", "%", "^", "*", "~"})
        lines == occurrences(text, {"\n"}) + 1
        indented == Cardinality({i \in 1..Len(text) :
                                   /\ line_start(i)
                                   /\ Lit(text, i, <<" ", " ">>) \/ Lit(text, i, <<"\t">>)})
    IN  /\ Len(text) >= 10
        /\ bool(shebang) + bool(slashes) + bool(hash)
             + bool(special * 100 > 8 * Len(text))
             + bool(lines >= 3 /\ indented * 10 > 4 * lines) >= 2

\* detect_sensitive 246-259: "PRIVATE KEY-----" or the pattern of an AWS,
\* Stripe or Google key occurs in the text
key_pattern(text) ==
    \E i \in 1..Len(text) :
        \/ Lit(text, i, <<"P", "R", "I", "V", "A", "T", "E", " ", "K", "E", "Y",
                          "-", "-", "-", "-", "-">>)
        \/ Lit(text, i, <<"A", "K", "I", "A">>) /\ Run(text, i + 4, 16, Digit \cup Upper)
        \/ /\ Lit(text, i, <<"s", "k", "_">>) \/ Lit(text, i, <<"p", "k", "_">>)
           /\ \/ Lit(text, i + 3, <<"t", "e", "s", "t", "_">>)
              \/ Lit(text, i + 3, <<"l", "i", "v", "e", "_">>)
           /\ Run(text, i + 8, 24, Digit \cup Upper \cup Lower)
        \/ /\ Lit(text, i, <<"A", "I", "z", "a">>)
           /\ Run(text, i + 4, 35, Digit \cup Upper \cup Lower \cup {"-", "_"})

\* the symbols of the class [!@#$%^&*()_+\-=\[\]{};':"\\|,.<>/?] of line 268
Symbol ==
    {"!", "@", "#", "$", "%", "^", "&", "*", "(", ")", "_", "+", "-", "=", "[", "]",
     "{", "}", ";", "'", ":", "\"", "\\", "|", ",", ".", "<", ">", "/", "?"}

\* ContentDetector.detect_sensitive
detect_sensitive(text) ==
    LET stripped == strip(text)
    IN  /\ text # <<>>
        /\ \/ key_pattern(text)
           \/ /\ occurrences(stripped, {" "}) = 0
              /\ Len(stripped) > 12
              /\ Len(stripped) < 128
              /\ occurrences(stripped, Upper) > 0
              /\ occurrences(stripped, Lower) > 0
              /\ occurrences(stripped, Digit) > 0
              /\ occurrences(stripped, Symbol) > 0

\* the result of detect: the domain of a url, the language of a code and the
\* metadata are left out
Detected(category, subtype, is_sensitive) ==
    [category |-> category, subtype |-> subtype, is_sensitive |-> is_sensitive]

\* detect with the code rule tried before the url rule
detect_code_first(text) ==
    LET stripped == strip(text)
        is_sensitive == detect_sensitive(text)
    IN  IF Len(stripped) < 30 /\ HEX_COLOR_PATTERN(stripped)
        THEN Detected("color", "hex", is_sensitive)
        ELSE IF Len(stripped) < 30 /\ RGB_COLOR_PATTERN(stripped)
        THEN Detected("color", "rgb", is_sensitive)
        ELSE IF is_code(stripped) THEN Detected("code", "language", is_sensitive)
        ELSE IF is_url(stripped) THEN Detected("url", "domain", is_sensitive)
        ELSE IF is_email(stripped) THEN Detected("email", "none", FALSE)
        ELSE IF Len(stripped) < 25 /\ is_phone(stripped)
        THEN Detected("phone", "none", FALSE)
        ELSE IF \E i \in 1..Len(stripped) : URL_PATTERN(stripped, i)
        THEN Detected("text", "with_urls", is_sensitive)
        ELSE Detected("text", "none", is_sensitive)

\* detect returning the flag of detect_sensitive for an email
detect_email_sensitive(text) ==
    LET stripped == strip(text)
        is_sensitive == detect_sensitive(text)
    IN  IF Len(stripped) < 30 /\ HEX_COLOR_PATTERN(stripped)
        THEN Detected("color", "hex", is_sensitive)
        ELSE IF Len(stripped) < 30 /\ RGB_COLOR_PATTERN(stripped)
        THEN Detected("color", "rgb", is_sensitive)
        ELSE IF is_url(stripped) THEN Detected("url", "domain", is_sensitive)
        ELSE IF is_email(stripped) THEN Detected("email", "none", is_sensitive)
        ELSE IF Len(stripped) < 25 /\ is_phone(stripped)
        THEN Detected("phone", "none", FALSE)
        ELSE IF is_code(stripped) THEN Detected("code", "language", is_sensitive)
        ELSE IF \E i \in 1..Len(stripped) : URL_PATTERN(stripped, i)
        THEN Detected("text", "with_urls", is_sensitive)
        ELSE Detected("text", "none", is_sensitive)

\* ContentDetector.detect
detect(text) ==
    LET stripped == strip(text)
        is_sensitive == detect_sensitive(text)
    IN  IF Len(stripped) < 30 /\ HEX_COLOR_PATTERN(stripped)
        THEN Detected("color", "hex", is_sensitive)
        ELSE IF Len(stripped) < 30 /\ RGB_COLOR_PATTERN(stripped)
        THEN Detected("color", "rgb", is_sensitive)
        ELSE IF is_url(stripped) THEN Detected("url", "domain", is_sensitive)
        ELSE IF is_email(stripped) THEN Detected("email", "none", FALSE)
        ELSE IF Len(stripped) < 25 /\ is_phone(stripped)
        THEN Detected("phone", "none", FALSE)
        ELSE IF is_code(stripped) THEN Detected("code", "language", is_sensitive)
        ELSE IF \E i \in 1..Len(stripped) : URL_PATTERN(stripped, i)
        THEN Detected("text", "with_urls", is_sensitive)
        ELSE Detected("text", "none", is_sensitive)

\* ---- the texts the detector is applied to ----

DetectBodies ==
    {<<>>,
     <<"a">>,
     <<"a", "b", " ", "b", "a">>,
     <<"#", "a", "b", "c">>,
     <<"#", "a", "1", "B", "2", "c", "3">>,
     <<"#", "a", "b", "c", "d">>,
     <<"#", "a", "b", "g">>,
     <<"r", "g", "b", "(", "1", ",", "2", ",", "3", ")">>,
     <<"R", "G", "B", "A", "(", " ", "1", ")">>,
     <<"h", "s", "l", "(", "a", ")">>,
     <<"r", "g", "b", "(", "1", ")", " ", "h", "t", "t", "p", ":", "/", "/", "a">>,
     <<"r", "g", "b", "(", "1", ")", "\n", "#", " ", "a", "\n", "/", "/", " ", "b">>,
     <<"r", "g", "b", "(", "1", ")", " ", "#", " ", "a", " ", "/", "/", " ", "b", " ",
       "h", "t", "t", "p", ":", "/", "/", "a", ".", "b", "/", "a", "b", " ", "a", "b">>,
     <<"h", "t", "t", "p", ":", "/", "/", "a">>,
     <<"H", "T", "T", "P", "S", ":", "/", "/", "a", ".", "b", "/", "a">>,
     <<"h", "t", "t", "p", ":", "/", "/">>,
     <<"h", "t", "t", "p", ":", "/", "/", "a", "\n", "#", " ", "a", "\n", "/", "/", " ",
       "b">>,
     <<"h", "t", "t", "p", ":", "/", "/", "a", "\n", "a", "\n", "b", "\n", "a">>,
     <<"a", "b", " ", "h", "t", "t", "p", ":", "/", "/", "a">>,
     <<"h", "t", "t", "p", ":", "/", "/", "a", "@", "b", ".", "a", "b">>,
     <<"#", " ", "a", "\n", "/", "/", " ", "b", " ", "h", "t", "t", "p", ":", "/", "/",
       "a">>,
     <<"a", "@", "b", ".", "a", "b">>,
     <<"A", "a", "1", "@", "b", "a", "b", "a", "b", "a", "b", ".", "a", "b">>,
     <<"a", "@", "b", ".", "a">>,
     <<"a", "@", "b", ".", "a", "b", "\n", "a">>,
     <<"a", ".", "b", "+", "1", "@", "a", "-", "b", ".", "a", ".", "a", "b">>,
     <<"+", "1", " ", "2", "3", "4", " ", "5", "6", "7", " ", "8", "9", "0", "1">>,
     <<"1", "2", "3", "4", "5", "6", "7">>,
     <<"1", "2", "3", "-", "4", "5", "6", "7">>,
     <<"(", "1", "2", "3", ")", " ", "4", "5", "6", "-", "7", "8", "9", "0">>,
     <<"1", "2", "3", "4", "5", "6">>,
     <<"1", "2", "3", "4", "5", "6", "7", "8", "9", "0", "1", "2", "3", "4", "5", "6">>,
     <<"+", "1", " ", "(", "2", "3", "4", ")", " ", "5", "6", "7", "-", "8", "9", "0",
       "1", " ", "2", "3", " ", "4", "5", " ", "6">>,
     <<"1", "2", " ", "3", "4">>,
     <<"#", " ", "a", "\n", "/", "/", " ", "b", " ", "a", "b">>,
     <<"#", "!", "/", "a", "/", "b", "\n", "#", " ", "a", " ", "b">>,
     <<" ", " ", "a", "\n", " ", " ", "b", "\n", " ", " ", "a", "(", "!", ")", "@",
       "#">>,
     <<"#", " ", "!", "a", "\n", "/", "/", " ", "b", " ", "a", "b">>,
     <<"#", "!", "/", "a">>,
     <<"/", "/", " ", "a", "\n", "a", "b", " ", "a", "b", " ", "a", "b">>,
     <<"(", "!", ")", "(", "!", ")", "(", "!", ")", "(", "!", ")", " ", "a", "b", "\n",
       "#", " ", "a">>,
     <<"A", "b", "a", "b", "a", "b", "a", "b", "a", "b", "1", "!", "a">>,
     <<"A", "b", "a", "b", "a", "b", "a", "b", "1", "!", "a", "b">>,
     <<"A", "b", "a", "b", "a", "\t", "b", "a", "b", "a", "b", "1", "!", "a">>,
     <<"A", "b", "a", "b", "a", "\n", "b", "a", "b", "a", "b", "1", "!", "a">>,
     <<"A", "b", "a", "b", "a", " ", "b", "a", "b", "a", "b", "1", "!", "a">>,
     <<"a", "b", "a", "b", "a", "b", "a", "b", "a", "b", "1", "!", "a">>,
     <<"A", "B", "A", "B", "A", "B", "A", "B", "A", "B", "1", "!", "A">>,
     <<"A", "b", "a", "b", "a", "b", "a", "b", "a", "b", "a", "!", "a">>,
     <<"A", "b", "a", "b", "a", "b", "a", "b", "a", "b", "1", "2", "a">>,
     <<"A", "K", "I", "A", "0", "1", "2", "3", "4", "5", "6", "7", "8", "9", "A", "B",
       "A", "B", "A", "B">>,
     <<"a", " ", "A", "K", "I", "A", "0", "1", "2", "3", "4", "5", "6", "7", "8", "9",
       "A", "B", "A", "B", "A", "B", "\t", "a">>,
     <<"A", "K", "I", "A", "0", "1", "2", "3", "4", "5", "6", "7", "8", "9", "a", "b",
       "a", "b", "a", "b">>,
     <<"-", "-", "-", "-", "-", "B", "E", "G", "I", "N", " ", "P", "R", "I", "V", "A",
       "T", "E", " ", "K", "E", "Y", "-", "-", "-", "-", "-">>,
     <<"s", "k", "_", "t", "e", "s", "t", "_", "0", "1", "2", "3", "4", "5", "6", "7",
       "8", "9", "a", "b", "A", "B", "a", "b", "A", "B", "a", "b", "A", "B", "a", "b">>,
     <<"p", "k", "_", "l", "i", "v", "e", "_", "0", "1", "2", "3", "4", "5", "6", "7",
       "8", "9">>,
     <<"A", "I", "z", "a", "0", "1", "2", "3", "4", "5", "6", "7", "8", "9", "-", "_",
       "a", "b", "A", "B", "a", "b", "A", "B", "a", "b", "A", "B", "a", "b", "A", "B", "a",
       "b", "A", "B", "a", "b", "A", "B", "a", "b", "A", "B">>,
     <<"h", "t", "t", "p", ":", "/", "/", "A", "b", "1", ".", "a", "b", "/", "a", "b",
       "a", "b">>,
     <<"#", "\t", "A", "b", "1", "!", "\n", "/", "/", "\t", "b", "\t", "a", "b">>,
     [i \in 1..115 |-> "a"] \o <<"A", "b", "a", "b", "a", "b", "a", "b", "a", "b", "1",
       "!">>,
     [i \in 1..115 |-> "a"] \o <<"A", "b", "a", "b", "a", "b", "a", "b", "a", "b", "1",
       "!", "a">>}

\* the bodies with and without a leading and a trailing space or newline
DetectTexts ==
    {pre \o body \o post : pre \in {<<>>, <<" ">>, <<"\n">>}, body \in DetectBodies,
                           post \in {<<>>, <<" ">>, <<"\n">>}}


----------------------------------------------------------------------------
\* database.py: the store.

\* a settings value: absent, a decimal integer, or text that int() rejects
Unset == [kind |-> "unset", val |-> 0]
NotANumber == [kind |-> "text", val |-> 0]
IntSetting(n) == [kind |-> "int", val |-> n]

\* the default of get_setting("max_history", "500")
DefaultMaxHistory == 500

Max(a, b) == IF a >= b THEN a ELSE b
Min(a, b) == IF a <= b THEN a ELSE b

\* Database._max_history_limit
max_history_limit(setting) ==
    IF setting.kind = "int" THEN Max(1, setting.val) ELSE Max(1, DefaultMaxHistory)

\* variant of Unprotected that forgets the favorite flag
UnprotectedPinnedOnly(cs) == {c \in cs : ~c.pinned}

\* rows eligible for eviction and bulk clear: pinned = 0 AND favorite = 0
Unprotected(cs) == {c \in cs : ~c.pinned /\ ~c.favorite}

\* variant of OldestFirst with ORDER BY used_at DESC
NewestFirst(cs, k) ==
    {V \in SUBSET cs : /\ Cardinality(V) = k
                       /\ \A v \in V : \A u \in cs \ V : v.used_at >= u.used_at}

\* ORDER BY used_at ASC LIMIT k: every set of k rows that no remaining row precedes
OldestFirst(cs, k) ==
    {V \in SUBSET cs : /\ Cardinality(V) = k
                       /\ \A v \in V : \A u \in cs \ V : v.used_at <= u.used_at}

\* Database._auto_cleanup: the tables it can leave
auto_cleanup(cs, max_items) ==
    LET count == Cardinality(Unprotected(cs))
    IN  IF count > max_items
        THEN {cs \ V : V \in OldestFirst(Unprotected(cs), count - max_items)}
        ELSE {cs}

\* collection_id NULL, the value of the column in every new row (the ids of
\* table collections, AUTOINCREMENT, start at 1)
NoCollection == 0

\* the row written by the INSERT of add_clip
NewRow(id, args, t) ==
    [id |-> id, content_type |-> args.content_type,
     content_hash |-> args.content_hash, text_content |-> args.text_content,
     preview |-> args.preview, pinned |-> FALSE, favorite |-> FALSE,
     is_snippet |-> FALSE, collection_id |-> NoCollection,
     use_count |-> 1, used_at |-> t]

\* variant of BumpRow that refreshes used_at only
TouchRow(c, t) == [c EXCEPT !.used_at = t]

\* the UPDATE of the IntegrityError branch of add_clip
BumpRow(c, t) == [c EXCEPT !.used_at = t, !.use_count = c.use_count + 1]

\* Database.add_clip called at time t: the outcomes [clips, next_id, ret,
\* evicted], evicted being the rows _auto_cleanup has deleted
add_clip(cs, nid, setting, t, args) ==
    IF \E c \in cs : c.content_hash = args.content_hash
    THEN LET bumped == {IF c.content_hash = args.content_hash
                        THEN BumpRow(c, t) ELSE c : c \in cs}
             row == CHOOSE c \in cs : c.content_hash = args.content_hash
         IN  {[clips |-> bumped, next_id |-> nid, ret |-> row.id, evicted |-> {}]}
    ELSE {[clips |-> left, next_id |-> nid + 1, ret |-> nid,
           evicted |-> (cs \cup {NewRow(nid, args, t)}) \ left] :
            left \in auto_cleanup(cs \cup {NewRow(nid, args, t)},
                                  max_history_limit(setting))}

\* the hash a row of an import file is stored under (import_from_json 561-571)
import_hash(e) ==
    IF e.content_hash # None THEN e.content_hash
    ELSE IF e.text_content # None THEN compute_hash(e.text_content)
    ELSE IF e.image_bytes # None THEN compute_hash(e.image_bytes)
    ELSE None

\* the UPDATE that import_from_json applies to the row add_clip returned;
\* no file drawn names a collection
ImportFlags(c, e) ==
    [c EXCEPT !.pinned = e.pinned, !.favorite = e.favorite,
              !.is_snippet = e.is_snippet, !.collection_id = NoCollection,
              !.use_count = Max(1, e.use_count), !.used_at = e.used_at]

\* the loop of import_from_json over data["clips"], started at time t:
\* the outcomes [clips, next_id, now, count, evicted]
RECURSIVE import_clips(_, _, _, _, _)
import_clips(cs, nid, setting, t, entries) ==
    IF entries = <<>>
    THEN {[clips |-> cs, next_id |-> nid, now |-> t, count |-> 0, evicted |-> {}]}
    ELSE LET e == Head(entries)
             h == import_hash(e)
             args == [content_type |-> e.content_type, content_hash |-> h,
                      text_content |-> e.text_content, preview |-> e.preview]
         IN  IF h = None \/ (\E c \in cs : c.content_hash = h)
             THEN import_clips(cs, nid, setting, t, Tail(entries))
             ELSE UNION {
                    LET updated == {IF c.id = o.ret THEN ImportFlags(c, e) ELSE c :
                                      c \in o.clips}
                    IN  {[r EXCEPT !.count = r.count + 1,
                                   !.evicted = r.evicted \cup o.evicted] :
                           r \in import_clips(updated, o.next_id, setting, t + 1,
                                              Tail(entries))} :
                    o \in add_clip(cs, nid, setting, t + 1, args)}

\* ---- the inputs of the store operations ----

TextA == <<"a">>
TextB == <<"b">>
\* the PNG bytes an application put on the clipboard for image 1 (written by
\* the encoder of GDK) and for image 2 (written by another encoder)
Image1 == <<"PNG", "1", "gdk">>
Image2 == <<"PNG", "2", "src">>

\* the arguments _process_text_content (296-307) and _store_image_clip
\* (340-353) pass to add_clip
TextArgs(t) ==
    [content_type |-> "text", content_hash |-> compute_hash(t), text_content |-> t,
     preview |-> truncate_text(t, PreviewLen)]
ImageArgs(b) ==
    [content_type |-> "image", content_hash |-> compute_hash(b), text_content |-> None,
     preview |-> <<"image">>]

ClipArgs == {TextArgs(TextA), TextArgs(TextB), ImageArgs(Image1)}

\* texts typed into the edit dialog
EditTexts == {TextA, TextB}
\* a text typed into the edit dialog that is longer than its preview
LongText == [i \in 1..(PreviewLen + 1) |-> "a"]

\* values the settings window writes for max_history (the SpinRow offers
\* 50..5000; the limits are scaled down to the size of the modelled store)
UiMaxHistory == {1, 2}

\* values of max_history an import file can carry
ImportMaxHistory == {IntSetting(0)}

\* used_at values an import file can carry: the distant past, the future
ImportTimes == {0, MaxTime + 1}

ImportEntry(a, h, bytes, p, f, u) ==
    [content_type |-> a.content_type, content_hash |-> h,
     text_content |-> a.text_content, preview |-> a.preview, image_bytes |-> bytes,
     pinned |-> p, favorite |-> f, is_snippet |-> FALSE, used_at |-> u,
     use_count |-> 2]

ImportEntries ==
    {ImportEntry(TextArgs(TextA), compute_hash(TextA), None, fl[1], fl[2], u) :
        fl \in {<<FALSE, FALSE>>, <<TRUE, FALSE>>, <<FALSE, TRUE>>},
        u \in ImportTimes}
    \cup {ImportEntry(ImageArgs(Image1), compute_hash(Image1), Image1, FALSE, FALSE, 0),
          ImportEntry(TextArgs(TextB), None, None, FALSE, FALSE, 0),
          ImportEntry(ImageArgs(Image1), None, None, TRUE, FALSE, 0)}

\* rows that follow the first row in the import files of two rows: a row with
\* the hash of text a again, and a row with another hash
ImportSecond ==
    {ImportEntry(TextArgs(TextA), compute_hash(TextA), None, TRUE, FALSE, 0),
     ImportEntry(TextArgs(TextB), None, None, FALSE, FALSE, MaxTime + 1)}

ImportFiles ==
    {<<e>> : e \in ImportEntries}
    \cup {<<e1, e2>> : e1 \in ImportEntries, e2 \in ImportSecond}

RowIds == 1..MaxRows

\* ---- the store operations as steps of the user interface ----

\* what the last add_clip call returned, until another Database call is made
Returned(n, b) == [id |-> n, ok |-> b]
NoCall == Returned(0, TRUE)

\* no text submission on record
NoSubmit == [text |-> None, n |-> 0]

\* the threads that call the store: the owning context and the image worker
Threads == {"main", "worker"}

\* the value of image_files while no record of the directory is kept
DiskUnobserved == {<<"unobserved">>}

\* utils.save_image_to_file: the files are named after the hash
save_image_to_file(files, content_hash) ==
    IF files = DiskUnobserved THEN files ELSE files \cup {content_hash}

\* files written (save_image_to_file) and then files removed in one call:
\* the loop over image_path and thumb_path of the rows that are about to be
\* deleted (delete_clip 319-326, clear_unpinned 412-419, _auto_cleanup
\* 701-707): a text row has no path; for an image row os.remove succeeds, is
\* skipped because the file does not exist, or raises OSError, which is passed
files_step(saved, rows) ==
    \E failed \in SUBSET {c.id : c \in {r \in rows : r.content_type = "image"}} :
        /\ remove_failed' = remove_failed \cup failed
        /\ image_files' =
              {h \in UNION {save_image_to_file(image_files, g) : g \in saved}
                        \cup image_files :
                 \A c \in rows : c.content_type = "image" /\ c.content_hash = h
                                    => c.id \in failed}

os_remove(rows) == files_step({}, rows)

StoreFrame ==
    /\ UNCHANGED <<monitorVars, gateVars, fnVars, job_log, watchVars, emitVars,
                   mid_reads, epoch_accepts, epoch_clean, negotiation, collections,
                   threadVars>>
    /\ submit_log' = NoSubmit

\* a caller stores a content through Database.add_clip
db_add_clip(args) ==
    /\ now < MaxTime
    /\ next_id <= MaxRows \/ (\E c \in clips : c.content_hash = args.content_hash)
    /\ \E o \in add_clip(clips, next_id, max_history, now + 1, args) :
          /\ clips' = o.clips
          /\ next_id' = o.next_id
          /\ os_remove(o.evicted)
          /\ last_call' = Returned(o.ret, TRUE)
    /\ now' = now + 1
    /\ UNCHANGED <<max_history, script_path>>
    /\ UNCHANGED returned
    /\ StoreFrame

\* ---- add_clip statement by statement, as two threads run it on the one
\* connection (check_same_thread=False): each execute() is one step ----

\* add_clip 229-236: the INSERT and its commit; on IntegrityError (241-256)
\* the UPDATE of the stored row, after which no cleanup runs
add_clip_insert(th, args) ==
    /\ add_pc[th] = "idle"
    /\ now < MaxTime
    /\ IF \E c \in clips : c.content_hash = args.content_hash
       THEN /\ clips' = {IF c.content_hash = args.content_hash
                         THEN BumpRow(c, now + 1) ELSE c : c \in clips}
            /\ UNCHANGED <<next_id, add_pc>>
       ELSE /\ next_id <= MaxRows
            /\ clips' = clips \cup {NewRow(next_id, args, now + 1)}
            /\ next_id' = next_id + 1
            /\ add_pc' = [add_pc EXCEPT ![th] = "inserted"]
    /\ now' = now + 1
    /\ last_call' = NoCall
    /\ UNCHANGED <<max_history, script_path, remove_failed, image_files,
                   add_count, uiVars>>
    /\ UNCHANGED <<monitorVars, gateVars, fnVars, job_log, watchVars, emitVars,
                   mid_reads, epoch_accepts, epoch_clean, negotiation>>
    /\ submit_log' = NoSubmit

\* add_clip 237 with _auto_cleanup 689-692: the limit is read and the
\* unprotected rows are counted
auto_cleanup_count(th) ==
    /\ add_pc[th] = "inserted"
    /\ LET count == Cardinality(Unprotected(clips))
           max_items == max_history_limit(max_history)
       IN  /\ add_count' = [add_count EXCEPT ![th] = count - max_items]
           /\ add_pc' = [add_pc EXCEPT ![th] = IF count > max_items
                                               THEN "counted" ELSE "idle"]
    /\ last_call' = NoCall
    /\ UNCHANGED <<dbVars, uiVars>>
    /\ UNCHANGED <<monitorVars, gateVars, fnVars, job_log, watchVars, emitVars,
                   mid_reads, epoch_accepts, epoch_clean, negotiation>>
    /\ submit_log' = NoSubmit

\* _auto_cleanup 693-714: the files of the oldest count - max_items rows are
\* removed and the DELETE, whose subquery is evaluated now, deletes the
\* oldest count - max_items unprotected rows that the table holds now
auto_cleanup_delete(th) ==
    /\ add_pc[th] = "counted"
    /\ \E V \in OldestFirst(Unprotected(clips),
                             Min(add_count[th], Cardinality(Unprotected(clips)))) :
          /\ os_remove(V)
          /\ clips' = clips \ V
    /\ add_pc' = [add_pc EXCEPT ![th] = "idle"]
    /\ last_call' = NoCall
    /\ UNCHANGED <<next_id, now, max_history, script_path, add_count, uiVars>>
    /\ UNCHANGED <<monitorVars, gateVars, fnVars, job_log, watchVars, emitVars,
                   mid_reads, epoch_accepts, epoch_clean, negotiation>>
    /\ submit_log' = NoSubmit

\* variant of delete_clip in which the OSError of os.remove is not passed:
\* the DELETE statement is not reached
delete_clip_unlink_raises(clip_id) ==
    /\ os_remove({c \in clips : c.id = clip_id})
    /\ clips' = IF remove_failed' # remove_failed THEN clips
                ELSE {c \in clips : c.id # clip_id}
    /\ last_call' = NoCall
    /\ UNCHANGED <<next_id, now, max_history, script_path>>
    /\ UNCHANGED returned
    /\ StoreFrame

\* Database.delete_clip
delete_clip(clip_id) ==
    /\ os_remove({c \in clips : c.id = clip_id})
    /\ clips' = {c \in clips : c.id # clip_id}
    /\ last_call' = NoCall
    /\ UNCHANGED <<next_id, now, max_history, script_path>>
    /\ UNCHANGED returned
    /\ StoreFrame

\* variant of toggle_pin that pins the clip whatever its flag was
toggle_pin_sets(clip_id) ==
    /\ clips' = {IF c.id = clip_id THEN [c EXCEPT !.pinned = TRUE] ELSE c :
                   c \in clips}
    /\ returned' = IF \E c \in clips : c.id = clip_id THEN "True" ELSE "False"
    /\ last_call' = NoCall
    /\ UNCHANGED <<next_id, now, max_history, script_path, remove_failed, image_files>>
    /\ StoreFrame

\* Database.toggle_pin
toggle_pin(clip_id) ==
    /\ clips' = {IF c.id = clip_id THEN [c EXCEPT !.pinned = ~c.pinned] ELSE c :
                   c \in clips}
    /\ returned' = IF \E c \in clips : c.id = clip_id /\ ~c.pinned
                   THEN "True" ELSE "False"
    /\ last_call' = NoCall
    /\ UNCHANGED <<next_id, now, max_history, script_path, remove_failed, image_files>>
    /\ StoreFrame

\* Database.toggle_snippet
toggle_snippet(clip_id) ==
    /\ clips' = {IF c.id = clip_id THEN [c EXCEPT !.is_snippet = ~c.is_snippet] ELSE c :
                   c \in clips}
    /\ returned' = IF \E c \in clips : c.id = clip_id /\ ~c.is_snippet
                   THEN "True" ELSE "False"
    /\ last_call' = NoCall
    /\ UNCHANGED <<next_id, now, max_history, script_path, remove_failed, image_files>>
    /\ StoreFrame

\* Database.toggle_favorite
toggle_favorite(clip_id) ==
    /\ clips' = {IF c.id = clip_id THEN [c EXCEPT !.favorite = ~c.favorite] ELSE c :
                   c \in clips}
    /\ returned' = IF \E c \in clips : c.id = clip_id /\ ~c.favorite
                   THEN "True" ELSE "False"
    /\ last_call' = NoCall
    /\ UNCHANGED <<next_id, now, max_history, script_path, remove_failed, image_files>>
    /\ StoreFrame

\* Database.update_used_at
update_used_at(clip_id) ==
    /\ now < MaxTime
    /\ clips' = {IF c.id = clip_id THEN BumpRow(c, now + 1) ELSE c : c \in clips}
    /\ now' = now + 1
    /\ last_call' = NoCall
    /\ UNCHANGED <<next_id, max_history, script_path, remove_failed, image_files>>
    /\ UNCHANGED returned
    /\ StoreFrame

\* variant of update_clip_text on a table without UNIQUE(content_hash)
update_clip_text_no_unique(clip_id, new_text) ==
    /\ clips' = {IF c.id = clip_id
                 THEN [c EXCEPT !.text_content = new_text,
                                !.content_hash = compute_hash(new_text),
                                !.preview = truncate_text(new_text, PreviewLen)]
                 ELSE c : c \in clips}
    /\ returned' = "True"
    /\ last_call' = NoCall
    /\ UNCHANGED <<next_id, now, max_history, script_path, remove_failed, image_files>>
    /\ StoreFrame

\* variant of update_clip_text whose UPDATE leaves content_hash as it was
update_clip_text_keeps_hash(clip_id, new_text) ==
    /\ clips' = {IF c.id = clip_id
                 THEN [c EXCEPT !.text_content = new_text,
                                !.preview = truncate_text(new_text, PreviewLen)]
                 ELSE c : c \in clips}
    /\ returned' = "True"
    /\ last_call' = NoCall
    /\ UNCHANGED <<next_id, now, max_history, script_path, remove_failed, image_files>>
    /\ StoreFrame

\* Database.update_clip_text: the UNIQUE(content_hash) constraint rejects the
\* UPDATE when another row holds the new hash
update_clip_text(clip_id, new_text) ==
    LET new_hash == compute_hash(new_text)
        collides == /\ \E c \in clips : c.id = clip_id
                    /\ \E d \in clips : d.id # clip_id /\ d.content_hash = new_hash
        new_preview == truncate_text(new_text, PreviewLen)
    IN  /\ clips' = IF collides THEN clips
                    ELSE {IF c.id = clip_id
                          THEN [c EXCEPT !.text_content = new_text,
                                         !.content_hash = new_hash,
                                         !.preview = new_preview]
                          ELSE c : c \in clips}
        /\ returned' = IF collides THEN "False" ELSE "True"
        /\ last_call' = NoCall
        /\ UNCHANGED <<next_id, now, max_history, script_path, remove_failed, image_files>>
        /\ StoreFrame

\* largest number of collections
MaxCollections == 1

\* Database.create_collection for a name not used before
create_collection ==
    /\ Cardinality(collections) < MaxCollections
    /\ collections' = collections \cup {Cardinality(collections) + 1}
    /\ last_call' = NoCall
    /\ submit_log' = NoSubmit
    /\ UNCHANGED <<dbVars, returned, threadVars, monitorVars, gateVars, fnVars,
                   job_log, watchVars, emitVars, mid_reads, epoch_accepts,
                   epoch_clean, negotiation>>

\* Database.set_collection for a collection picked in the window, or for none
set_collection(clip_id, collection_id) ==
    /\ clips' = {IF c.id = clip_id THEN [c EXCEPT !.collection_id = collection_id]
                 ELSE c : c \in clips}
    /\ last_call' = NoCall
    /\ UNCHANGED <<next_id, now, max_history, script_path, remove_failed, image_files, returned>>
    /\ StoreFrame

\* variant of clear_unpinned whose statements test the pinned flag only
clear_unpinned_pinned_only ==
    /\ os_remove(UnprotectedPinnedOnly(clips))
    /\ clips' = clips \ UnprotectedPinnedOnly(clips)
    /\ last_call' = NoCall
    /\ UNCHANGED <<next_id, now, max_history, script_path>>
    /\ UNCHANGED returned
    /\ StoreFrame

\* Database.clear_unpinned
clear_unpinned ==
    /\ os_remove(Unprotected(clips))
    /\ clips' = clips \ Unprotected(clips)
    /\ last_call' = NoCall
    /\ UNCHANGED <<next_id, now, max_history, script_path>>
    /\ UNCHANGED returned
    /\ StoreFrame

\* Database.import_from_json of a file with the given settings and rows
import_from_json(file_setting, entries) ==
    LET setting == IF file_setting = Unset THEN max_history ELSE file_setting
    IN  /\ now + Len(entries) <= MaxTime
        /\ next_id + Len(entries) <= MaxRows + 1
        /\ \E r \in import_clips(clips, next_id, setting, now, entries) :
             \E left \in auto_cleanup(r.clips, max_history_limit(setting)) :
                /\ clips' = left
                /\ next_id' = r.next_id
                /\ now' = r.now
                /\ files_step({import_hash(entries[i]) : i \in
                                 {j \in 1..Len(entries) :
                                    /\ entries[j].image_bytes # None
                                    /\ \A c \in clips : c.content_hash #
                                                          import_hash(entries[j])}},
                              r.evicted \cup (r.clips \ left))
                /\ last_call' = NoCall
        /\ max_history' = setting
        /\ UNCHANGED script_path
        /\ UNCHANGED returned
    /\ StoreFrame

\* SettingsWindow._on_int_changed for key max_history
set_max_history(value) ==
    /\ main_pc = "idle"
    /\ max_history' = IntSetting(value)
    /\ \E left \in auto_cleanup(clips, value) :
          clips' = left /\ os_remove(clips \ left)
    /\ last_call' = NoCall
    /\ UNCHANGED <<next_id, now, script_path>>
    /\ UNCHANGED returned
    /\ StoreFrame

----------------------------------------------------------------------------
\* monitor.py: the capture pipeline.

NoContent == [kind |-> "none", data |-> None]
NoJob == [image_data |-> None, sized |-> FALSE]


\* ---- the environment: what applications copy, what the tools produce ----

\* texts that applications put on the clipboard
RawTexts == {TextA, <<" ", "b">>}
\* PNG images that applications put on the clipboard
SourceImages == {Image2}
\* pictures that applications put on the clipboard in the runs that keep a
\* record of IMAGES_DIR
BlobImages == {Image1, Image2}

TextContent(t) == [kind |-> "text", data |-> t]
ImageContent(b) == [kind |-> "image", data |-> b]

ClipboardContents ==
    {NoContent} \cup {TextContent(t) : t \in RawTexts}
                \cup {ImageContent(b) : b \in SourceImages}

\* texture.save_to_png_bytes() of the texture GDK decoded from the PNG bytes b:
\* the picture of b, written by the encoder of GDK
texture_png(b) == <<"PNG", b[2], "gdk">>

\* `base64 -w0; echo` in the watcher subprocess, and base64.b64decode
b64encode(b) == <<"b64">> \o b
b64decode(line) == IF line # <<>> /\ Head(line) = "b64" THEN Tail(line) ELSE None

\* what the script named by script_path can write to stdout
ScriptStdout == {<<>>, <<" ">>, <<"a", " ">>}

\* how a run of the script can end: proc.communicate returns with a return
\* code and the stdout, or raises TimeoutExpired; Popen raises OSError
ScriptRun(returncode, stdout) ==
    [end |-> "exit", returncode |-> returncode, stdout |-> stdout]
ScriptRunsOf(stdouts) ==
    {ScriptRun(rc, out) : rc \in {0, 1}, out \in stdouts}
        \cup {[end |-> e, returncode |-> 0, stdout |-> <<>>] : e \in {"timeout", "oserror"}}

\* variant of script_result that takes the stdout whatever the return code
script_result_any_exit(text, run) ==
    IF run.end = "exit" /\ run.stdout # <<>> THEN strip(run.stdout) ELSE text

\* monitor.py 264-283: the text handed on after the script has run on text.
\* `if proc.returncode == 0 and processed: text = processed.strip()`; the
\* except clause catches every exception of the try block
script_result(text, run) ==
    IF run.end = "exit" /\ run.returncode = 0 /\ run.stdout # <<>>
    THEN strip(run.stdout)
    ELSE text

\* monitor.py 261-283: the texts the script filter can hand on for a text.
\* The script is run only when script_path is set.
script_filter(text) ==
    IF script_path
    THEN {script_result(text, run) : run \in ScriptRunsOf(ScriptStdout)}
    ELSE {text}

\* files an image file reference can name: ClipboardMonitor._extract_image_file_path
\* yields a path only for a line starting with file://, / or ~ that names an
\* existing file with an image extension
IsPathText(t) == t # <<>> /\ Head(t) \in {"/", "~"}
NotAFile == <<"ENOENT">>
FileBytes == {None, Image2}
image_file_ref(t) == IF IsPathText(t) THEN {NotAFile} \cup FileBytes ELSE {NotAFile}
\* a text the environment copies that can name an image file
TextPath == <<"/", "p">>

\* ---- the Dedup Gate ----

\* variant of mark_hash_if_new that accepts every hash
mark_hash_always(lh, content_hash) == [ret |-> TRUE, last_hash |-> content_hash]

\* ClipboardMonitor._mark_hash_if_new, run by the owning context
mark_hash_if_new(lh, content_hash) ==
    IF content_hash = lh
    THEN [ret |-> FALSE, last_hash |-> lh]
    ELSE [ret |-> TRUE, last_hash |-> content_hash]

\* ClipboardMonitor._queue_image_snapshot up to its first put_nowait; when the
\* queue is full the handler goes on in drop_oldest and put_newest
queue_image_snapshot(image_data, sized) ==
    LET g == mark_hash_if_new(last_hash, compute_hash(image_data))
        job == [image_data |-> image_data, sized |-> sized]
    IN  /\ last_hash' = g.last_hash
        /\ IF ~g.ret
           THEN UNCHANGED <<image_queue, main_pc, pending_job>>
           ELSE IF Len(image_queue) < QueueMaxSize
                THEN /\ image_queue' = Append(image_queue, job)
                     /\ UNCHANGED <<main_pc, pending_job>>
                ELSE /\ main_pc' = "full"
                     /\ pending_job' = job
                     /\ UNCHANGED image_queue

\* variant of incognito_mark that leaves last_hash alone
incognito_skip(data) == UNCHANGED <<last_hash, image_queue, main_pc, pending_job>>

\* the incognito branch shared by the handlers: with self._state_lock:
\* self.last_hash = compute_hash(data)
incognito_mark(data) ==
    /\ last_hash' = compute_hash(data)
    /\ UNCHANGED <<image_queue, main_pc, pending_job>>

GateUntouched == UNCHANGED <<last_hash, image_queue, main_pc, pending_job>>

\* history: a handler has processed an observation of the content src; the
\* gate has accepted it when last_hash changed outside the incognito branch
Observed(src) ==
    LET clean == epoch_clean /\ src = clipboard
        accepted == ~is_incognito /\ last_hash' # last_hash
    IN  /\ epoch_clean' = clean
        /\ epoch_accepts' = IF ~clean THEN 0
                            ELSE IF accepted THEN Min(epoch_accepts + 1, 2)
                            ELSE epoch_accepts

\* ---- notifications ----

\* self.emit("new-clip", clip_id), on record in notified
emit_new_clip_signal(clip_id) ==
    [notified EXCEPT ![clip_id] = Min(notified[clip_id] + 1, 2)]

\* a text the environment copies that ContentDetector.detect classifies as a
\* URL
TextUrl == <<"h", "t", "t", "p", ":", "/", "/", "x">>

\* ---- text path ----

\* the gate and the Store call of _process_text_content (lines 285-307) for
\* the filtered text
store_text(text) ==
    IF is_incognito
    THEN /\ incognito_mark(text)
         /\ submit_log' = NoSubmit
         /\ UNCHANGED <<clips, next_id, now, remove_failed, image_files, notified, title_fetch>>
    ELSE LET content_hash == compute_hash(text)
             g == mark_hash_if_new(last_hash, content_hash)
         IN  /\ last_hash' = g.last_hash
             /\ UNCHANGED <<image_queue, main_pc, pending_job>>
             /\ submit_log' =
                  IF submit_log.n = 1 /\ submit_log.text = text
                  THEN [text |-> text, n |-> 2]
                  ELSE IF g.ret /\ ~(\E c \in clips : c.content_hash = content_hash)
                       THEN [text |-> text, n |-> 1]
                       ELSE NoSubmit
             /\ IF ~g.ret
                THEN UNCHANGED <<clips, next_id, now, remove_failed, image_files, notified,
                                 title_fetch>>
                ELSE /\ now < MaxTime
                     /\ next_id <= MaxRows \/ (\E c \in clips : c.content_hash = content_hash)
                     /\ \E o \in add_clip(clips, next_id, max_history, now + 1,
                                         TextArgs(text)) :
                           /\ clips' = o.clips
                           /\ next_id' = o.next_id
                           /\ os_remove(o.evicted)
                           /\ notified' = emit_new_clip_signal(o.ret)
                           /\ title_fetch' = IF detect(text).category = "url"
                                             THEN title_fetch \cup {o.ret}
                                             ELSE title_fetch
                     /\ now' = now + 1

\* ClipboardMonitor._handle_image_file_reference for the bytes read from the file
handle_image_file_reference(image_data) ==
    /\ submit_log' = NoSubmit
    /\ UNCHANGED <<clips, next_id, now, remove_failed, image_files, notified, title_fetch>>
    /\ IF image_data = None
       THEN GateUntouched
       ELSE IF is_incognito
            THEN incognito_mark(image_data)
            ELSE \E sized \in BOOLEAN : queue_image_snapshot(image_data, sized)

\* ClipboardMonitor._process_text_content
process_text_content(text) ==
    IF paused \/ text = None \/ strip(text) = None
    THEN /\ GateUntouched
         /\ UNCHANGED <<clips, next_id, now, remove_failed, image_files, submit_log, notified,
                        title_fetch>>
    ELSE \E ref \in image_file_ref(strip(text)) :
            IF ref # NotAFile
            THEN handle_image_file_reference(ref)
            ELSE \E filtered \in script_filter(strip(text)) : store_text(filtered)

\* ---- reads ----

TextRead(t) == [kind |-> "text", data |-> t]
TextureRead(b) == [kind |-> "texture", data |-> b]
Reads ==
    {TextRead(t) : t \in RawTexts \cup {TextUrl, TextPath}}
        \cup {TextureRead(b) : b \in SourceImages \cup BlobImages}

One(x) == SetToBag({x})

\* the clipboard content a read was issued for
ReadSource(r) == IF r.kind = "text" THEN TextContent(r.data) ELSE ImageContent(r.data)

\* variant of read_clipboard in which the read is issued although the
\* negotiation has raised
read_clipboard_error_reads ==
    IF paused \/ clipboard.kind = "none"
    THEN UNCHANGED <<inflight, mid_reads, negotiation>>
    ELSE /\ BagCardinality(inflight) < MaxInflight
         /\ \E raises \in BOOLEAN :
               negotiation' = IF negotiation = "unobserved" THEN negotiation
                              ELSE IF raises THEN "error"
                              ELSE IF negotiation = "error" THEN "retried"
                              ELSE negotiation
         /\ inflight' = inflight (+)
              One(IF clipboard.kind = "image"
                  THEN TextureRead(clipboard.data)
                  ELSE TextRead(clipboard.data))
         /\ mid_reads' = IF inflight # EmptyBag THEN mid_reads + 1 ELSE 0

\* ClipboardMonitor._read_clipboard; get_formats() can raise
read_clipboard ==
    IF paused
    THEN UNCHANGED <<inflight, mid_reads, negotiation>>
    ELSE \E raises \in BOOLEAN :
            IF raises
            THEN /\ UNCHANGED <<inflight, mid_reads>>
                 /\ negotiation' = IF negotiation = "unobserved" THEN negotiation
                                   ELSE "error"
            ELSE IF clipboard.kind = "none"
            THEN UNCHANGED <<inflight, mid_reads, negotiation>>
            ELSE /\ BagCardinality(inflight) < MaxInflight
                 /\ negotiation' = IF negotiation = "error" THEN "retried"
                                   ELSE negotiation
                 /\ inflight' = inflight (+)
                      One(IF clipboard.kind = "image"
                          THEN TextureRead(clipboard.data)
                          ELSE TextRead(clipboard.data))
                 /\ mid_reads' = IF inflight # EmptyBag THEN mid_reads + 1 ELSE 0

TriggerFrame ==
    UNCHANGED <<dbVars, last_call, uiVars, threadVars, clipboard, paused, is_incognito, last_hash,
                wl_stdout, idle_queue, image_queue, main_pc, pending_job,
                worker_pc, worker_item, image_worker_stop, poll_source_id,
                gateVars, fnVars, job_log, watchVars, emitVars, epoch_accepts,
                epoch_clean, submit_log>>

\* ClipboardMonitor._on_clipboard_changed: the GDK "changed" signal
on_clipboard_changed ==
    /\ main_pc = "idle"
    /\ IF paused THEN UNCHANGED <<inflight, mid_reads, negotiation>>
       ELSE read_clipboard
    /\ TriggerFrame

\* variant of poll_clipboard that returns False: GLib removes the source
\* after the tick
poll_clipboard_returns_false ==
    /\ main_pc = "idle"
    /\ poll_source_id
    /\ IF ~paused THEN read_clipboard
       ELSE UNCHANGED <<inflight, mid_reads, negotiation>>
    /\ poll_source_id' = FALSE
    /\ UNCHANGED <<dbVars, last_call, uiVars, threadVars, clipboard, paused, is_incognito, last_hash,
                   wl_stdout, idle_queue, image_queue, main_pc, pending_job,
                   worker_pc, worker_item, image_worker_stop, gateVars, fnVars,
                   job_log, watchVars, emitVars, epoch_accepts, epoch_clean,
                   submit_log>>

\* ClipboardMonitor._poll_clipboard: the GLib timeout
poll_clipboard ==
    /\ main_pc = "idle"
    /\ poll_source_id
    /\ IF ~paused THEN read_clipboard
       ELSE UNCHANGED <<inflight, mid_reads, negotiation>>
    /\ TriggerFrame

\* a read completes: it leaves the bag of reads in flight
Complete(r) ==
    /\ main_pc = "idle"
    /\ BagIn(r, inflight)
    /\ inflight' = inflight (-) One(r)
    /\ mid_reads' = 0

\* ClipboardMonitor._on_text_read; read_text_finish can raise or return None
on_text_read(r) ==
    /\ r.kind = "text"
    /\ Complete(r)
    /\ \E text \in {r.data, None} : process_text_content(text)
    /\ Observed(ReadSource(r))
    /\ UNCHANGED <<max_history, script_path, last_call, uiVars, threadVars, clipboard, paused,
                   is_incognito, wl_stdout, idle_queue, worker_pc, worker_item,
                   image_worker_stop, poll_source_id, gateVars, fnVars, job_log, watchVars,
                   emit_queue, negotiation>>

\* ClipboardMonitor._on_url_title_fetched, posted by the thread of
\* fetch_url_title_async when curl has ended with a title or without one
on_url_title_fetched(clip_id) ==
    /\ main_pc = "idle"
    /\ clip_id \in title_fetch
    /\ title_fetch' = title_fetch \ {clip_id}
    /\ \E title \in {None, <<"t">>} :
          notified' = IF title # None THEN emit_new_clip_signal(clip_id) ELSE notified
    /\ UNCHANGED <<dbVars, last_call, uiVars, threadVars, monitorVars, gateVars, fnVars, job_log, watchVars,
                   obsVars, emit_queue>>

\* ClipboardMonitor._on_texture_read; read_texture_finish can raise or return
\* no texture
on_texture_read(r) ==
    /\ r.kind = "texture"
    /\ Complete(r)
    /\ \E texture \in {texture_png(r.data), None} :
          IF texture = None
          THEN GateUntouched /\ UNCHANGED submit_log
          ELSE /\ submit_log' = NoSubmit
               /\ IF is_incognito
                  THEN incognito_mark(texture)
                  ELSE queue_image_snapshot(texture, TRUE)
    /\ Observed(ReadSource(r))
    /\ UNCHANGED <<dbVars, last_call, uiVars, threadVars, clipboard, paused, is_incognito, wl_stdout,
                   idle_queue, worker_pc, worker_item, image_worker_stop,
                   poll_source_id, gateVars, fnVars, job_log, watchVars, emitVars,
                   negotiation>>

\* ---- the continuation of _queue_image_snapshot on a full queue ----

\* variant of drop_oldest that removes the job queued last
drop_newest ==
    /\ main_pc = "full"
    /\ image_queue' = IF image_queue # <<>>
                      THEN SubSeq(image_queue, 1, Len(image_queue) - 1)
                      ELSE image_queue
    /\ main_pc' = "retry"
    /\ UNCHANGED <<dbVars, last_call, uiVars, threadVars, clipboard, paused, is_incognito, last_hash,
                   inflight, wl_stdout, idle_queue, pending_job, worker_pc,
                   worker_item, image_worker_stop, poll_source_id, gateVars, fnVars,
                   job_log, watchVars, emitVars, obsVars>>

\* lines 402-406: get_nowait() drops the oldest job, if the worker left one
drop_oldest ==
    /\ main_pc = "full"
    /\ image_queue' = IF image_queue # <<>> THEN Tail(image_queue) ELSE image_queue
    /\ main_pc' = "retry"
    /\ UNCHANGED <<dbVars, last_call, uiVars, threadVars, clipboard, paused, is_incognito, last_hash,
                   inflight, wl_stdout, idle_queue, pending_job, worker_pc,
                   worker_item, image_worker_stop, poll_source_id, gateVars, fnVars,
                   job_log, watchVars, emitVars, obsVars>>

\* lines 407-410: put_nowait() of the newest job; a second queue.Full is ignored
put_newest ==
    /\ main_pc = "retry"
    /\ image_queue' = IF Len(image_queue) < QueueMaxSize
                      THEN Append(image_queue, pending_job)
                      ELSE image_queue
    /\ main_pc' = "idle"
    /\ pending_job' = NoJob
    /\ UNCHANGED <<dbVars, last_call, uiVars, threadVars, clipboard, paused, is_incognito, last_hash,
                   inflight, wl_stdout, idle_queue, worker_pc, worker_item,
                   image_worker_stop, poll_source_id, gateVars, fnVars, job_log,
                   watchVars, emitVars, obsVars>>

\* ---- the wl-paste watcher ----

\* an application copies content c; wl-paste --watch --type image/png writes
\* one base64 line for an image
Copy(c) ==
    /\ clipboard' = c
    /\ IF c.kind = "image" /\ wl_paste = "running"
       THEN /\ Len(wl_stdout) < MaxPosted
            /\ wl_stdout' = Append(wl_stdout, b64encode(c.data))
       ELSE UNCHANGED wl_stdout
    /\ epoch_accepts' = 0
    /\ epoch_clean' = TRUE
    /\ UNCHANGED <<dbVars, last_call, uiVars, threadVars, paused, is_incognito, last_hash, inflight,
                   idle_queue, image_queue, main_pc, pending_job, worker_pc,
                   worker_item, image_worker_stop, poll_source_id, gateVars, fnVars,
                   job_log, watchVars, emitVars,
                   mid_reads, submit_log, negotiation>>

\* _watch_thread lines 151-167, run by the watcher thread: Popen spawns
\* wl-paste and the thread stores the handle, or Popen raises
watch_spawn ==
    /\ watch_pc = "spawn"
    /\ \E raises \in BOOLEAN :
          IF raises
          THEN /\ watch_pc' = "exit"
               /\ UNCHANGED <<wl_paste, wl_image_watch_process, wl_image_watch_active>>
          ELSE /\ wl_paste' = "running"
               /\ wl_image_watch_process' = TRUE
               /\ wl_image_watch_active' = TRUE
               /\ watch_pc' = "read"
    /\ UNCHANGED <<dbVars, last_call, uiVars, threadVars, monitorVars, gateVars, fnVars, job_log, emitVars,
                   obsVars>>

\* _watch_thread lines 169 and 182-183: the subprocess has been terminated and
\* its stdout is drained, the for loop ends
watch_eof ==
    /\ watch_pc = "read"
    /\ wl_paste = "terminated"
    /\ wl_stdout = <<>>
    /\ watch_pc' = "exit"
    /\ wl_image_watch_active' = FALSE
    /\ UNCHANGED <<dbVars, last_call, uiVars, threadVars, monitorVars, gateVars, fnVars, job_log, emitVars,
                   obsVars, wl_paste, wl_image_watch_process>>

\* _watch_thread, one turn of the loop over the subprocess's stdout
watch_thread ==
    /\ watch_pc = "read"
    /\ wl_stdout # <<>>
    /\ wl_stdout' = Tail(wl_stdout)
    /\ LET data == b64decode(strip(Head(wl_stdout)))
       IN  IF paused \/ strip(Head(wl_stdout)) = None \/ data = None
           THEN UNCHANGED idle_queue
           ELSE /\ Len(idle_queue) < MaxPosted
                /\ idle_queue' = Append(idle_queue, data)
    /\ UNCHANGED <<dbVars, last_call, uiVars, threadVars, clipboard, paused, is_incognito, last_hash,
                   inflight, image_queue, main_pc, pending_job, worker_pc,
                   worker_item, image_worker_stop, poll_source_id, gateVars, fnVars,
                   job_log, watchVars, emitVars, obsVars>>

\* ClipboardMonitor._process_wl_image_snapshot, run by the main loop for the
\* oldest GLib.idle_add
process_wl_image_snapshot ==
    /\ main_pc = "idle"
    /\ idle_queue # <<>>
    /\ idle_queue' = Tail(idle_queue)
    /\ LET image_data == Head(idle_queue)
       IN  /\ IF paused \/ image_data = None
              THEN GateUntouched /\ UNCHANGED submit_log
              ELSE /\ submit_log' = NoSubmit
                   /\ IF is_incognito
                      THEN incognito_mark(image_data)
                      ELSE queue_image_snapshot(image_data, FALSE)
           /\ Observed(ImageContent(image_data))
    /\ UNCHANGED <<dbVars, last_call, uiVars, threadVars, clipboard, paused, is_incognito, inflight,
                   wl_stdout, worker_pc, worker_item, image_worker_stop,
                   poll_source_id, gateVars, fnVars, job_log, watchVars, emitVars,
                   mid_reads, negotiation>>

\* ---- the image worker thread ----

WorkerFrame ==
    UNCHANGED <<dbVars, last_call, uiVars, threadVars, clipboard, paused, is_incognito, last_hash,
                inflight, wl_stdout, idle_queue, main_pc, pending_job,
                image_worker_stop, poll_source_id, gateVars, fnVars, job_log, watchVars,
                emitVars, obsVars>>

\* variant of worker_test that goes on whatever the stop flag says
worker_test_no_flag ==
    /\ worker_pc = "wait"
    /\ worker_pc' = "get"
    /\ UNCHANGED <<image_queue, worker_item>>
    /\ WorkerFrame

\* _image_worker_loop line 413: while not self._image_worker_stop.is_set()
worker_test ==
    /\ worker_pc = "wait"
    /\ worker_pc' = IF image_worker_stop THEN "exit" ELSE "get"
    /\ UNCHANGED <<image_queue, worker_item>>
    /\ WorkerFrame

\* lines 414-417: queue.get(timeout=0.2) raises queue.Empty, continue
worker_timeout ==
    /\ worker_pc = "get"
    /\ image_queue = <<>>
    /\ worker_pc' = "wait"
    /\ UNCHANGED <<image_queue, worker_item>>
    /\ WorkerFrame

\* variant of worker_get that takes the item queued last
worker_get_last ==
    /\ worker_pc = "get"
    /\ image_queue # <<>>
    /\ image_queue' = SubSeq(image_queue, 1, Len(image_queue) - 1)
    /\ IF image_queue[Len(image_queue)] = NoJob
       THEN worker_pc' = "exit" /\ UNCHANGED worker_item
       ELSE worker_pc' = "job" /\ worker_item' = image_queue[Len(image_queue)]
    /\ WorkerFrame

\* lines 415-421: queue.get returns an item; the None sentinel is modelled by
\* NoJob
worker_get ==
    /\ worker_pc = "get"
    /\ image_queue # <<>>
    /\ image_queue' = Tail(image_queue)
    /\ IF Head(image_queue) = NoJob
       THEN worker_pc' = "exit" /\ UNCHANGED worker_item
       ELSE worker_pc' = "job" /\ worker_item' = Head(image_queue)
    /\ WorkerFrame

\* ---- _store_image_clip in its two steps, for the runs that keep a record
\* of IMAGES_DIR: between the two the owning context can run ----

\* _image_worker_loop 423-431 with _store_image_clip 320-339: the hash is
\* computed and save_image_to_file writes the files, or raises
store_image_save ==
    /\ worker_pc = "job"
    /\ \E raises \in BOOLEAN :
          /\ image_files' \in
                (IF raises THEN {image_files} ELSE {}) \cup
                {save_image_to_file(image_files,
                                    compute_hash(worker_item.image_data))}
          /\ IF raises
             THEN /\ job_log' = IF job_log = "none" THEN "raised" ELSE job_log
                  /\ worker_pc' = "wait"
                  /\ worker_item' = NoJob
             ELSE /\ worker_pc' = "saved"
                  /\ UNCHANGED <<job_log, worker_item>>
    /\ UNCHANGED <<clips, next_id, now, max_history, script_path, remove_failed,
                   last_call, uiVars, threadVars, clipboard, paused, is_incognito,
                   last_hash, inflight, wl_stdout, idle_queue, image_queue,
                   main_pc, pending_job, image_worker_stop, poll_source_id,
                   gateVars, fnVars, watchVars, emitVars, obsVars>>

\* _store_image_clip 346-355: add_clip with the paths of the files written,
\* and the new_clip signal posted by the worker (427-429)
store_image_add ==
    /\ worker_pc = "saved"
    /\ LET args == ImageArgs(worker_item.image_data)
       IN  /\ now < MaxTime
           /\ next_id <= MaxRows
                \/ (\E c \in clips : c.content_hash = args.content_hash)
           /\ Len(emit_queue) < MaxPosted
           /\ \E o \in add_clip(clips, next_id, max_history, now + 1, args) :
                 /\ clips' = o.clips
                 /\ next_id' = o.next_id
                 /\ os_remove(o.evicted)
                 /\ emit_queue' = Append(emit_queue, o.ret)
           /\ now' = now + 1
           /\ submit_log' = NoSubmit
           /\ job_log' = IF job_log = "raised" THEN "recovered" ELSE job_log
    /\ worker_pc' = "wait"
    /\ worker_item' = NoJob
    /\ UNCHANGED <<max_history, script_path, last_call, uiVars, threadVars,
                   clipboard, paused, is_incognito, last_hash, inflight, wl_stdout,
                   idle_queue, image_queue, main_pc, pending_job,
                   image_worker_stop, poll_source_id, gateVars, fnVars, watchVars,
                   title_fetch, notified, mid_reads, epoch_accepts, epoch_clean,
                   negotiation>>

\* variant of worker_store: the job raises and the exception is not caught, so
\* that it ends the thread
worker_store_uncaught ==
    /\ worker_pc = "job"
    /\ job_log' = IF job_log = "none" THEN "raised" ELSE job_log
    /\ worker_pc' = "exit"
    /\ worker_item' = NoJob
    /\ UNCHANGED <<dbVars, last_call, uiVars, threadVars, clipboard, paused, is_incognito, last_hash,
                   inflight, wl_stdout, idle_queue, image_queue, main_pc, pending_job,
                   image_worker_stop, poll_source_id, gateVars, fnVars, watchVars,
                   emitVars, obsVars>>

\* _image_worker_loop lines 423-431 with _store_image_clip: the job is stored,
\* or an exception (image processing, file write, database) is caught
worker_store ==
    /\ worker_pc = "job"
    /\ \E raises \in BOOLEAN :
          IF raises
          THEN /\ job_log' = IF job_log = "none" THEN "raised" ELSE job_log
               /\ image_files' \in {image_files,
                                      save_image_to_file(
                                          image_files,
                                          compute_hash(worker_item.image_data))}
               /\ UNCHANGED <<clips, next_id, now, remove_failed, submit_log,
                              emit_queue>>
          ELSE LET args == ImageArgs(worker_item.image_data)
               IN  /\ now < MaxTime
                   /\ next_id <= MaxRows
                        \/ (\E c \in clips : c.content_hash = args.content_hash)
                   /\ Len(emit_queue) < MaxPosted
                   /\ \E o \in add_clip(clips, next_id, max_history, now + 1, args) :
                         /\ clips' = o.clips
                         /\ next_id' = o.next_id
                         /\ files_step({args.content_hash}, o.evicted)
                         /\ emit_queue' = Append(emit_queue, o.ret)
                   /\ now' = now + 1
                   /\ submit_log' = NoSubmit
                   /\ job_log' = IF job_log = "raised" THEN "recovered" ELSE job_log
    /\ worker_pc' = "wait"
    /\ worker_item' = NoJob
    /\ UNCHANGED <<max_history, script_path, last_call, uiVars, threadVars, clipboard, paused,
                   is_incognito, last_hash, inflight, wl_stdout, idle_queue,
                   image_queue, main_pc, pending_job, image_worker_stop,
                   poll_source_id, gateVars, fnVars, watchVars, title_fetch, notified,
                   mid_reads, epoch_accepts, epoch_clean, negotiation>>

\* ClipboardMonitor._emit_new_clip, run by the main loop for the oldest
\* GLib.idle_add of the worker
emit_new_clip ==
    /\ main_pc = "idle"
    /\ emit_queue # <<>>
    /\ emit_queue' = Tail(emit_queue)
    /\ notified' = emit_new_clip_signal(Head(emit_queue))
    /\ UNCHANGED <<dbVars, last_call, uiVars, threadVars, monitorVars, gateVars, fnVars, job_log, watchVars,
                   obsVars, title_fetch>>

\* ---- shutdown ----

\* ClipboardMonitor.stop
stop ==
    /\ main_pc = "idle"
    /\ poll_source_id' = FALSE
    /\ wl_image_watch_process' = FALSE
    /\ wl_paste' = IF wl_image_watch_process THEN "terminated" ELSE wl_paste
    /\ image_worker_stop' = TRUE
    /\ image_queue' = IF Len(image_queue) < QueueMaxSize
                      THEN Append(image_queue, NoJob)
                      ELSE image_queue
    /\ UNCHANGED <<dbVars, last_call, uiVars, threadVars, clipboard, paused, is_incognito, last_hash,
                   inflight, wl_stdout, idle_queue, main_pc, pending_job, worker_pc,
                   worker_item, wl_image_watch_active, watch_pc, gateVars, fnVars,
                   job_log, emitVars, obsVars>>

\* ---- the user's controls ----

ControlFrame ==
    UNCHANGED <<clips, next_id, now, max_history, remove_failed, image_files, last_call, uiVars, threadVars,
                clipboard, last_hash, inflight, wl_stdout, idle_queue, image_queue, main_pc, pending_job,
                worker_pc, worker_item, image_worker_stop, poll_source_id,
                gateVars, fnVars, job_log, watchVars, emitVars, obsVars>>

\* tray.py 265-267: monitor.paused = value
set_paused(value) ==
    /\ main_pc = "idle"
    /\ paused' = value
    /\ UNCHANGED <<is_incognito, script_path>>
    /\ ControlFrame

\* ClipKeeperApp.toggle_incognito
toggle_incognito ==
    /\ main_pc = "idle"
    /\ is_incognito' = ~is_incognito
    /\ UNCHANGED <<paused, script_path>>
    /\ ControlFrame

\* the settings window stores or clears script_path
set_script_path(value) ==
    /\ main_pc = "idle"
    /\ script_path' = value
    /\ UNCHANGED <<paused, is_incognito>>
    /\ ControlFrame

----------------------------------------------------------------------------
\* ClipboardMonitor._mark_hash_if_new statement by statement, for callers that
\* run it concurrently: `with self._state_lock:` is the only synchronisation.

Callers == 1..NumCallers
GateHashes == {compute_hash(TextA), compute_hash(TextB)}

GateFrame == UNCHANGED <<dbVars, last_call, uiVars, threadVars, clipboard, paused, is_incognito, inflight,
                         wl_stdout, idle_queue, image_queue, main_pc, pending_job,
                         worker_pc, worker_item, image_worker_stop, poll_source_id,
                         obsVars, fnVars, job_log, watchVars, emitVars>>

\* a caller enters _mark_hash_if_new(content_hash)
gate_call(c, content_hash) ==
    /\ gate_pc[c] = "idle"
    /\ gate_pc' = [gate_pc EXCEPT ![c] = "acquire"]
    /\ gate_arg' = [gate_arg EXCEPT ![c] = content_hash]
    /\ UNCHANGED <<last_hash, state_lock, gate_ret, gate_seen>>
    /\ GateFrame

\* variant of gate_acquire that enters without waiting for the lock
gate_enter_unlocked(c) ==
    /\ gate_pc[c] = "acquire"
    /\ state_lock' = c
    /\ gate_seen' = [gate_seen EXCEPT ![c] = last_hash]
    /\ gate_pc' = [gate_pc EXCEPT ![c] = "compare"]
    /\ UNCHANGED <<last_hash, gate_arg, gate_ret>>
    /\ GateFrame

\* line 386: with self._state_lock
gate_acquire(c) ==
    /\ gate_pc[c] = "acquire"
    /\ state_lock = 0
    /\ state_lock' = c
    /\ gate_seen' = [gate_seen EXCEPT ![c] = last_hash]
    /\ gate_pc' = [gate_pc EXCEPT ![c] = "compare"]
    /\ UNCHANGED <<last_hash, gate_arg, gate_ret>>
    /\ GateFrame

\* lines 387-388: if content_hash == self.last_hash: return False
gate_compare(c) ==
    /\ gate_pc[c] = "compare"
    /\ IF gate_arg[c] = last_hash
       THEN /\ gate_ret' = [gate_ret EXCEPT ![c] = FALSE]
            /\ gate_pc' = [gate_pc EXCEPT ![c] = "release"]
       ELSE /\ gate_pc' = [gate_pc EXCEPT ![c] = "assign"]
            /\ UNCHANGED gate_ret
    /\ UNCHANGED <<last_hash, state_lock, gate_arg, gate_seen>>
    /\ GateFrame

\* lines 389-390: self.last_hash = content_hash; return True
gate_assign(c) ==
    /\ gate_pc[c] = "assign"
    /\ last_hash' = gate_arg[c]
    /\ gate_ret' = [gate_ret EXCEPT ![c] = TRUE]
    /\ gate_pc' = [gate_pc EXCEPT ![c] = "release"]
    /\ UNCHANGED <<state_lock, gate_arg, gate_seen>>
    /\ GateFrame

\* leaving the with block releases the lock; the caller has its result
gate_release(c) ==
    /\ gate_pc[c] = "release"
    /\ state_lock' = 0
    /\ gate_pc' = [gate_pc EXCEPT ![c] = "done"]
    /\ UNCHANGED <<last_hash, gate_arg, gate_ret, gate_seen>>
    /\ GateFrame

\* ---- the incognito branch, statement by statement ----

\* a caller reaches `if self.is_incognito:` with the hash of its content
\* (lines 193, 233, 285, 367)
incognito_call(c, content_hash) ==
    /\ gate_pc[c] = "idle"
    /\ gate_pc' = [gate_pc EXCEPT ![c] = "iacquire"]
    /\ gate_arg' = [gate_arg EXCEPT ![c] = content_hash]
    /\ UNCHANGED <<last_hash, state_lock, gate_ret, gate_seen>>
    /\ GateFrame

\* variant of incognito_acquire that enters without waiting for the lock
incognito_enter_unlocked(c) ==
    /\ gate_pc[c] = "iacquire"
    /\ state_lock' = IF state_lock = 0 THEN c ELSE state_lock
    /\ gate_pc' = [gate_pc EXCEPT ![c] = "set"]
    /\ UNCHANGED <<last_hash, gate_arg, gate_ret, gate_seen>>
    /\ GateFrame

\* lines 194, 234, 286, 368: with self._state_lock
incognito_acquire(c) ==
    /\ gate_pc[c] = "iacquire"
    /\ state_lock = 0
    /\ state_lock' = c
    /\ gate_pc' = [gate_pc EXCEPT ![c] = "set"]
    /\ UNCHANGED <<last_hash, gate_arg, gate_ret, gate_seen>>
    /\ GateFrame

\* lines 195, 235, 287, 369: self.last_hash = compute_hash(...)
incognito_set(c) ==
    /\ gate_pc[c] = "set"
    /\ last_hash' = gate_arg[c]
    /\ gate_pc' = [gate_pc EXCEPT ![c] = "release"]
    /\ UNCHANGED <<state_lock, gate_arg, gate_ret, gate_seen>>
    /\ GateFrame

----------------------------------------------------------------------------
\* The state after Database() and ClipboardMonitor(db) have been constructed.

InitProgram ==
    /\ clips = {}
    /\ next_id = 1
    /\ now = 0
    /\ max_history = Unset
    /\ script_path = FALSE
    /\ remove_failed = {}
    /\ add_pc = [th \in Threads |-> "idle"]
    /\ add_count = [th \in Threads |-> 0]
    /\ last_call = NoCall
    /\ collections = {}
    /\ returned = "none"
    /\ clipboard = NoContent
    /\ paused = FALSE
    /\ is_incognito = FALSE
    /\ last_hash = None
    /\ inflight = EmptyBag
    /\ wl_stdout = <<>>
    /\ idle_queue = <<>>
    /\ image_queue = <<>>
    /\ main_pc = "idle"
    /\ pending_job = NoJob
    /\ worker_pc = "wait"
    /\ worker_item = NoJob
    /\ image_worker_stop = FALSE
    /\ poll_source_id = TRUE
    /\ wl_paste = "absent"
    /\ wl_image_watch_process = FALSE
    /\ wl_image_watch_active = FALSE
    /\ watch_pc = "spawn"
    /\ emit_queue = <<>>
    /\ title_fetch = {}
    /\ notified = [i \in RowIds |-> 0]
    /\ job_log = "none"
    /\ state_lock = 0
    /\ gate_pc = [c \in Callers |-> "idle"]
    /\ gate_arg = [c \in Callers |-> None]
    /\ gate_ret = [c \in Callers |-> FALSE]
    /\ gate_seen = [c \in Callers |-> None]
    /\ mid_reads = 0
    /\ epoch_accepts = 0
    /\ epoch_clean = TRUE
    /\ submit_log = NoSubmit

\* the function under study has not been called
NotRun == <<"not run">>

Init ==
    /\ InitProgram
    /\ negotiation = "unobserved"
    /\ image_files = DiskUnobserved
    /\ fn_args = None
    /\ fn_result = NotRun

\* the program with a record kept of the format negotiations that raise
InitNegotiate ==
    /\ InitProgram
    /\ negotiation = "none"
    /\ image_files = DiskUnobserved
    /\ fn_args = None
    /\ fn_result = NotRun

\* the program with a record kept of the files in IMAGES_DIR, empty at first
InitBlob ==
    /\ InitProgram
    /\ negotiation = "unobserved"
    /\ image_files = {}
    /\ fn_args = None
    /\ fn_result = NotRun

----------------------------------------------------------------------------
\* The capture pipeline with its store.  SpecText and SpecImage are the
\* pipeline in an environment that copies texts only, or images only; Spec is
\* the pipeline in an environment that copies both.

\* the pipeline while applications copy texts only: no image handler is ever
\* called, the watcher writes nothing, the image queue stays empty
NextText ==
    \/ \E c \in {NoContent} \cup {TextContent(t) : t \in RawTexts} : Copy(c)
    \/ on_clipboard_changed
    \/ poll_clipboard
    \/ \E r \in Reads : on_text_read(r)
    \/ \E v \in BOOLEAN : set_paused(v)
    \/ toggle_incognito
    \/ \E v \in BOOLEAN : set_script_path(v)

SpecText == Init /\ [][NextText]_vars

\* the pipeline while applications copy images only: no text handler is ever
\* called
NextImage ==
    \/ \E c \in {NoContent} \cup {ImageContent(b) : b \in SourceImages} : Copy(c)
    \/ on_clipboard_changed
    \/ poll_clipboard
    \/ \E r \in Reads : on_texture_read(r)
    \/ drop_oldest
    \/ put_newest
    \/ watch_spawn
    \/ watch_thread
    \/ process_wl_image_snapshot
    \/ worker_test
    \/ worker_timeout
    \/ worker_get
    \/ worker_store
    \/ emit_new_clip
    \/ \E v \in BOOLEAN : set_paused(v)
    \/ toggle_incognito

SpecImage == Init /\ [][NextImage]_vars

\* the image pipeline with the files it writes, while the user deletes clips
\* and clears the history in the window
SpecBlob ==
    InitBlob /\ [][\/ \E b \in BlobImages : Copy(ImageContent(b))
                   \/ on_clipboard_changed
                   \/ \E r \in Reads : on_texture_read(r)
                   \/ worker_test
                   \/ worker_timeout
                   \/ worker_get
                   \/ store_image_save
                   \/ store_image_add
                   \/ emit_new_clip
                   \/ \E i \in RowIds : delete_clip(i)
                   \/ clear_unpinned]_vars

\* the pipeline while applications copy texts and images, and the user
\* changes the history limit
Next ==
    \/ \E c \in ClipboardContents : Copy(c)
    \/ on_clipboard_changed
    \/ poll_clipboard
    \/ \E r \in Reads : on_text_read(r)
    \/ \E r \in Reads : on_texture_read(r)
    \/ drop_oldest
    \/ put_newest
    \/ watch_spawn
    \/ watch_thread
    \/ watch_eof
    \/ process_wl_image_snapshot
    \/ worker_test
    \/ worker_timeout
    \/ worker_get
    \/ worker_store
    \/ emit_new_clip
    \/ \E i \in RowIds : on_url_title_fetched(i)
    \/ \E v \in BOOLEAN : set_paused(v)
    \/ toggle_incognito
    \/ \E v \in BOOLEAN : set_script_path(v)
    \/ \E v \in UiMaxHistory : set_max_history(v)
    \/ stop

Spec == Init /\ [][Next]_vars

\* the pipeline while applications copy a plain text and a URL, with the
\* title fetches the URL starts
SpecNotify ==
    Init /\ [][\/ \E c \in {NoContent, TextContent(TextA), TextContent(TextUrl)} : Copy(c)
               \/ on_clipboard_changed
               \/ poll_clipboard
               \/ \E r \in Reads : on_text_read(r)
               \/ \E i \in RowIds : on_url_title_fetched(i)]_vars

\* the pipeline once the user has switched incognito on, while applications
\* copy a text, a URL, the path of an image file and an image: nothing was
\* copied before, and the mode stays on
SpecIncognito ==
    Init /\ [][\/ \E c \in {TextContent(TextA), TextContent(TextUrl),
                              TextContent(TextPath), ImageContent(Image2)} :
                     is_incognito /\ Copy(c)
               \/ on_clipboard_changed
               \/ poll_clipboard
               \/ \E r \in Reads : on_text_read(r)
               \/ \E r \in Reads : on_texture_read(r)
               \/ watch_spawn
               \/ watch_thread
               \/ process_wl_image_snapshot
               \/ ~is_incognito /\ toggle_incognito]_vars

\* the pipeline from construction to shutdown while applications copy images:
\* recording stays enabled and stop() is called at any moment, any number of
\* times
NextStop ==
    \/ \E c \in {NoContent} \cup {ImageContent(b) : b \in SourceImages} : Copy(c)
    \/ on_clipboard_changed
    \/ poll_clipboard
    \/ \E r \in Reads : on_texture_read(r)
    \/ drop_oldest
    \/ put_newest
    \/ watch_spawn
    \/ watch_thread
    \/ watch_eof
    \/ process_wl_image_snapshot
    \/ worker_test
    \/ worker_timeout
    \/ worker_get
    \/ worker_store
    \/ emit_new_clip
    \/ stop

SpecStop == Init /\ [][NextStop]_vars

\* the text pipeline driven by the poll alone, the change signal never firing,
\* while the user deletes clips, clears the history and sets max_history.
\* The GLib timeout fires every 100 ms and GDK completes every read it was
\* asked for: a poll tick that issues a read is taken when it stays possible,
\* and reads that deliver their text complete again and again.
SpecPoll ==
    /\ Init
    /\ [][\/ \E c \in {NoContent} \cup {TextContent(t) : t \in RawTexts} : Copy(c)
          \/ poll_clipboard
          \/ \E r \in Reads : on_text_read(r)
          \/ \E i \in RowIds : delete_clip(i)
          \/ clear_unpinned
          \/ \E v \in UiMaxHistory : set_max_history(v)]_vars
    /\ WF_vars(poll_clipboard /\ inflight' # inflight)
    /\ SF_vars(\E r \in Reads :
                  on_text_read(r) /\ last_hash' = compute_hash(strip(r.data)))

\* the text pipeline, with or without a filter script, while the user edits
\* the text of stored clips
SpecEdit ==
    Init /\ [][\/ \E c \in {TextContent(t) : t \in RawTexts} : Copy(c)
               \/ on_clipboard_changed
               \/ poll_clipboard
               \/ \E r \in Reads : on_text_read(r)
               \/ \E v \in BOOLEAN : set_script_path(v)
               \/ \E i \in RowIds, t \in EditTexts \cup RawTexts :
                     update_clip_text(i, t)]_vars

\* the store while clips are added and deleted and the user switches the
\* flags of a clip, the clip being stored or not
SpecFlags ==
    Init /\ [][\/ \E a \in ClipArgs : db_add_clip(a)
               \/ \E i \in RowIds : delete_clip(i)
               \/ \E i \in RowIds : toggle_pin(i)
               \/ \E i \in RowIds : toggle_snippet(i)
               \/ \E i \in RowIds : toggle_favorite(i)]_vars

\* the store while clips are added and deleted and the user edits the text
\* of a clip, the clip of the dialog being stored or not
SpecEditDialog ==
    Init /\ [][\/ \E a \in ClipArgs : db_add_clip(a)
               \/ \E i \in RowIds : delete_clip(i)
               \/ \E i \in RowIds, t \in EditTexts \cup RawTexts \cup {LongText} :
                     update_clip_text(i, t)]_vars

\* the triggers, the reads and the worker while applications copy a text or
\* an image and the negotiation of get_formats() may raise at any trigger; no
\* watcher is started
SpecNegotiate ==
    InitNegotiate /\ [][\/ \E c \in {NoContent, TextContent(TextA), ImageContent(Image2)} :
                             Copy(c)
                        \/ on_clipboard_changed
                        \/ poll_clipboard
                        \/ \E r \in Reads : on_text_read(r)
                        \/ \E r \in Reads : on_texture_read(r)
                        \/ drop_oldest
                        \/ put_newest
                        \/ worker_test
                        \/ worker_timeout
                        \/ worker_get
                        \/ worker_store
                        \/ emit_new_clip
                        \/ \E v \in BOOLEAN : set_paused(v)]_vars

\* the watcher, the queue and the worker from construction to shutdown while
\* applications copy two images and no read is issued.  The worker thread is
\* scheduled again and again: its loop test, queue.get (which returns an
\* item or times out after 0.2 s) and the job it runs each come to an end.
NextShutdown ==
    \/ \E c \in {ImageContent(Image1), ImageContent(Image2)} : Copy(c)
    \/ drop_oldest
    \/ put_newest
    \/ watch_spawn
    \/ watch_thread
    \/ watch_eof
    \/ process_wl_image_snapshot
    \/ worker_test
    \/ worker_timeout
    \/ worker_get
    \/ worker_store
    \/ emit_new_clip
    \/ stop

SpecShutdown ==
    /\ Init
    /\ [][NextShutdown]_vars
    /\ WF_vars(worker_test)
    /\ WF_vars(worker_timeout)
    /\ WF_vars(worker_get)
    /\ WF_vars(worker_store)

----------------------------------------------------------------------------
\* The store driven through its interface, one call at a time.

NextStore ==
    \/ \E a \in ClipArgs : db_add_clip(a)
    \/ \E i \in RowIds : delete_clip(i)
    \/ \E i \in RowIds : toggle_pin(i)
    \/ \E i \in RowIds : toggle_favorite(i)
    \/ \E i \in RowIds : update_used_at(i)
    \/ \E i \in RowIds, t \in EditTexts : update_clip_text(i, t)
    \/ clear_unpinned
    \/ \E st \in {Unset} \cup ImportMaxHistory, f \in ImportFiles : import_from_json(st, f)
    \/ \E v \in UiMaxHistory : set_max_history(v)

SpecStore == Init /\ [][NextStore]_vars

\* the store with its collections and settings while the user pins clips,
\* marks favorites, files clips in a collection and clears the history
SpecClear ==
    Init /\ [][\/ \E a \in ClipArgs : db_add_clip(a)
               \/ \E i \in RowIds : toggle_pin(i)
               \/ \E i \in RowIds : toggle_favorite(i)
               \/ create_collection
               \/ \E i \in RowIds, k \in collections \cup {NoCollection} :
                     set_collection(i, k)
               \/ \E v \in UiMaxHistory : set_max_history(v)
               \/ \E v \in BOOLEAN : set_script_path(v)
               \/ clear_unpinned]_vars

\* the contents each thread stores: texts on the owning context
\* (_process_text_content), images on the worker (_store_image_clip)
ThreadArgs(th) ==
    IF th = "main" THEN {TextArgs(TextA), TextArgs(TextB)}
    ELSE {ImageArgs(Image1), ImageArgs(Image2)}

\* the owning context and the image worker both inside add_clip; the user
\* changes the limit and pins clips while no add_clip is under way, so that
\* the only statements that interleave are those of the two add_clip calls
SpecEvict ==
    Init /\ [][\/ \E th \in Threads : \E a \in ThreadArgs(th) : add_clip_insert(th, a)
               \/ \E th \in Threads : auto_cleanup_count(th)
               \/ \E th \in Threads : auto_cleanup_delete(th)
               \/ \E v \in UiMaxHistory :
                     (\A th \in Threads : add_pc[th] = "idle") /\ set_max_history(v)
               \/ \E i \in RowIds :
                     (\A th \in Threads : add_pc[th] = "idle") /\ toggle_pin(i)]_vars

----------------------------------------------------------------------------
\* The gate entered by concurrent callers, each once.

NextGate ==
    \/ \E c \in Callers, h \in GateHashes : gate_call(c, h)
    \/ \E c \in Callers : gate_acquire(c)
    \/ \E c \in Callers : gate_compare(c)
    \/ \E c \in Callers : gate_assign(c)
    \/ \E c \in Callers : gate_release(c)

SpecGate == Init /\ [][NextGate]_vars

\* Every access to last_hash in the program: callers run _mark_hash_if_new or
\* the incognito branch, each once.
SpecLock ==
    Init /\ [][\/ \E c \in Callers, h \in GateHashes : gate_call(c, h)
               \/ \E c \in Callers, h \in GateHashes : incognito_call(c, h)
               \/ \E c \in Callers : gate_acquire(c)
               \/ \E c \in Callers : gate_compare(c)
               \/ \E c \in Callers : gate_assign(c)
               \/ \E c \in Callers : incognito_acquire(c)
               \/ \E c \in Callers : incognito_set(c)
               \/ \E c \in Callers : gate_release(c)]_vars

----------------------------------------------------------------------------
\* Properties of the store (checked under SpecStore).

HashStored(cs, h) == \E c \in cs : c.content_hash = h

\* C6: add_clip with a content_hash that already belongs to a live clip stores
\* no duplicate: the number of live clips is unchanged, exactly that clip gets
\* use_count + 1 and used_at = the time of the call, every other clip is
\* unchanged, and the call returns that clip's id.
C6_UpsertExisting ==
    [][\A a \in ClipArgs :
          (db_add_clip(a) /\ HashStored(clips, a.content_hash))
          => /\ Cardinality(clips') = Cardinality(clips)
             /\ \E c \in clips :
                  /\ c.content_hash = a.content_hash
                  /\ clips' = (clips \ {c}) \cup
                       {[c EXCEPT !.use_count = c.use_count + 1, !.used_at = now']}
                  /\ last_call'.id = c.id]_vars

\* a clip was stored, another clip was stored after it, and then the first
\* content was stored again: it is still one row, with use_count 2
C6_Witness ==
    \E c \in clips, d \in clips :
        /\ c.id = 1 /\ d.id = 2 /\ last_call = Returned(1, TRUE)
        /\ c.use_count = 2 /\ c.used_at = now /\ d.used_at < now

\* C7: no two live clips have the same content_hash.
C7_UniqueHash ==
    \A c \in clips, d \in clips : c # d => c.content_hash # d.content_hash

\* three live clips, one of them edited to text b after it was stored as an
\* image, while the hash of text a stays with one row that was added twice
C7_Witness ==
    \E c \in clips, d \in clips :
        /\ c.content_type = "image" /\ c.text_content = TextB
        /\ d.content_hash = compute_hash(TextA) /\ d.use_count >= 2

\* C8: with an effective limit N = max_history_limit, inserting a new clip
\* into a store that holds N clips, none of them pinned or favorite, leaves
\* exactly N live clips, and the one clip removed has the smallest used_at of
\* the N + 1.
C8_EvictOldest ==
    [][\A a \in ClipArgs :
          (/\ db_add_clip(a)
           /\ ~HashStored(clips, a.content_hash)
           /\ Unprotected(clips) = clips
           /\ Cardinality(clips) = max_history_limit(max_history))
          => LET all == clips \cup {NewRow(next_id, a, now')}
                 gone == all \ clips'
             IN  /\ Cardinality(clips') = max_history_limit(max_history)
                 /\ clips' \subseteq all
                 /\ Cardinality(gone) = 1
                 /\ \A r \in gone : \A u \in all : r.used_at <= u.used_at]_vars

\* max_history is 2 and the third insert has evicted the first clip
C8_Witness ==
    /\ max_history = IntSetting(2)
    /\ last_call = Returned(3, TRUE)
    /\ {c.id : c \in clips} = {2, 3}
    /\ \A c \in clips : c.use_count = 1 /\ ~c.pinned /\ ~c.favorite

\* C9: a clip that is pinned or favorite is removed by no step except
\* delete_clip of that clip: not by eviction, not by clear_unpinned.
C9_ProtectedKept ==
    [][\A c \in clips :
          (c.pinned \/ c.favorite)
          => \/ \E d \in clips' : d.id = c.id
             \/ delete_clip(c.id)]_vars

\* a pinned or favorite clip older than every other clip is still stored after
\* two clips were inserted after it under max_history = 1
C9_Witness ==
    /\ max_history = IntSetting(1)
    /\ next_id >= 4
    /\ \E c \in clips : c.id = 1 /\ (c.pinned \/ c.favorite) /\ c.used_at = 1
    /\ Cardinality(clips) = 2
    /\ \E d \in clips : d.id = 3 /\ d.used_at = 3

----------------------------------------------------------------------------
\* Properties of the reads (checked under SpecText).

\* C1: at every moment at most one asynchronous clipboard read is in flight:
\* _read_clipboard issues no read while an earlier read has not completed.
C1_SingleFlight == BagCardinality(inflight) <= 1

\* C2: of the triggers that arrive while a read is in flight, at most one
\* leads to a read: between two completions, with a read in flight, the
\* number of reads issued is never one per trigger.
C2_OneFollowUp == mid_reads <= 1

----------------------------------------------------------------------------
\* Properties of the gate (C3 under SpecGate, C4 under SpecImage, C5 under
\* SpecText).

Accepted == {c \in Callers : gate_pc[c] = "done" /\ gate_ret[c]}

\* C3: the decision of _mark_hash_if_new is atomic. From the moment a caller
\* has the lock until it has decided, last_hash is what the caller found; the
\* caller returns False exactly when its hash equals that value, and then
\* last_hash is unchanged; otherwise last_hash is its hash and it returns True.
\* When all callers present the same hash, different from the initial
\* last_hash, exactly one of them is accepted; when they present different
\* hashes, every presented hash is accepted, and no hash is accepted twice
\* more often than another.
C3_AtomicGate ==
    /\ \A c \in Callers :
          /\ gate_pc[c] \in {"compare", "assign"} => last_hash = gate_seen[c]
          /\ gate_pc[c] = "release" =>
                /\ last_hash = gate_arg[c]
                /\ gate_ret[c] = (gate_arg[c] # gate_seen[c])
          /\ gate_pc[c] = "done" => gate_ret[c] = (gate_arg[c] # gate_seen[c])
    /\ (\A c \in Callers : gate_pc[c] = "done") =>
          /\ \A h \in GateHashes :
                (\A c \in Callers : gate_arg[c] = h) => Cardinality(Accepted) = 1
          /\ \A c \in Callers : \E d \in Accepted : gate_arg[d] = gate_arg[c]
          /\ \A h \in GateHashes, k \in GateHashes :
                Cardinality({c \in Accepted : gate_arg[c] = h})
                   <= Cardinality({c \in Accepted : gate_arg[c] = k}) + 1

\* all callers have presented the hash of text a and exactly one was accepted
C3_Witness ==
    /\ \A c \in Callers : gate_pc[c] = "done" /\ gate_arg[c] = compute_hash(TextA)
    /\ Cardinality(Accepted) = 1
    /\ last_hash = compute_hash(TextA)

\* C4: the observations of one unchanged clipboard content, by whatever mix
\* of change signal, poll tick and watcher snapshot, are accepted by the gate
\* at most once: one add_clip call or one enqueued image job.
C4_OneAcceptPerCopy == epoch_clean => epoch_accepts <= 1

\* the clip stored for a text
ClipsOf(text) == {c \in clips : c.content_hash = compute_hash(text)}

\* C5 as stated: after submit(A), submit(A) of a text A that was not stored
\* before, with recording enabled, there is exactly one clip for A and it has
\* use_count = 2.
C5_TwiceCountsTwo ==
    submit_log.n = 2 =>
        /\ Cardinality(ClipsOf(submit_log.text)) = 1
        /\ \A c \in ClipsOf(submit_log.text) : c.use_count = 2

\* C5, amended: after submit(A), submit(A) of a text A that was not stored
\* before, with recording enabled, there is exactly one clip for A and it has
\* use_count = 1: the gate rejects the second submission (last_hash is the
\* hash of A) before the store is called.
C5_TwiceCountsOnce ==
    submit_log.n = 2 =>
        /\ Cardinality(ClipsOf(submit_log.text)) = 1
        /\ \A c \in ClipsOf(submit_log.text) : c.use_count = 1
        /\ last_hash = compute_hash(submit_log.text)

\* text a was submitted twice in a row and is stored once
C5_Witness ==
    /\ submit_log = [text |-> TextA, n |-> 2]
    /\ \E c \in ClipsOf(TextA) : c.use_count = 1 /\ c.used_at = now

----------------------------------------------------------------------------
\* Properties of the image queue (checked under SpecImage).

\* the gate accepts an image in this step
ImageAccepted == main_pc = "idle" /\ ~is_incognito /\ last_hash' # last_hash

\* the job was made from the snapshot the gate accepted last
Newest(job) == job # NoJob /\ compute_hash(job.image_data) = last_hash'

\* the producer is never made to wait: both steps of the overflow path can
\* always be taken
NonBlocking ==
    /\ main_pc = "full" => ENABLED drop_oldest
    /\ main_pc = "retry" => ENABLED put_newest

\* the queue stays within its capacity; an accepted snapshot is appended when
\* there is room and otherwise held for the overflow path; the overflow path
\* ends by appending it
QueueSteps ==
    /\ Len(image_queue') <= QueueMaxSize
    /\ ImageAccepted =>
          IF Len(image_queue) < QueueMaxSize
          THEN /\ image_queue' # <<>>
               /\ image_queue' = Append(image_queue, image_queue'[Len(image_queue')])
               /\ Newest(image_queue'[Len(image_queue')])
               /\ main_pc' = "idle"
          ELSE /\ image_queue' = image_queue
               /\ Newest(pending_job')
               /\ main_pc' = "full"
    /\ (main_pc = "full" /\ main_pc' # "full") =>
          main_pc' = "retry" /\ pending_job' = pending_job
    /\ (main_pc = "retry" /\ main_pc' # "retry") =>
          main_pc' = "idle" /\ image_queue' = Append(image_queue, pending_job)

\* C10 as stated: enqueueing never blocks the producer, the queue never holds
\* more than its capacity, and an enqueue that found the queue full removes
\* exactly the single oldest queued job and then appends the new job.
C10_DropExactlyOne ==
    /\ []NonBlocking
    /\ [][/\ QueueSteps
          /\ (main_pc = "full" /\ main_pc' # "full") =>
                image_queue # <<>> /\ image_queue' = Tail(image_queue)]_vars

\* C10, amended: enqueueing never blocks the producer, the queue never holds
\* more than its capacity, and an enqueue that found the queue full removes
\* the oldest job still queued, or no job when the worker has emptied the queue
\* in the meantime, and then appends the new job.
C10_DropOldestIfAny ==
    /\ []NonBlocking
    /\ [][/\ QueueSteps
          /\ (main_pc = "full" /\ main_pc' # "full") =>
                image_queue' = IF image_queue # <<>> THEN Tail(image_queue)
                               ELSE image_queue]_vars

\* the queue was full when a snapshot was accepted, the oldest job has been
\* dropped and the snapshot is about to be appended
C10_Witness ==
    /\ main_pc = "retry"
    /\ Len(image_queue) = QueueMaxSize - 1
    /\ pending_job # NoJob
    /\ compute_hash(pending_job.image_data) = last_hash

----------------------------------------------------------------------------
\* The script filter as a function of the text and of the way the script's
\* run ends (checked under SpecScript).

\* texts and outputs of at most MaxTextLen characters
TextsUpTo(n) == UNION {[1..k -> {"a", "b", " "}] : k \in 0..n}

\* a text reaches the script filter stripped and not empty (lines 251-253)
FilterInputs == {t \in TextsUpTo(MaxTextLen) : t # <<>> /\ strip(t) = t}
FilterStdouts == TextsUpTo(MaxTextLen - 1)

InitScript ==
    /\ InitProgram
    /\ negotiation = "unobserved"
    /\ image_files = DiskUnobserved
    /\ fn_args \in [text : FilterInputs, run : ScriptRunsOf(FilterStdouts)]
    /\ fn_result = NotRun

\* the script filter of _process_text_content is applied to the drawn text
run_script_filter ==
    /\ fn_result = NotRun
    /\ fn_result' = script_result(fn_args.text, fn_args.run)
    /\ UNCHANGED <<dbVars, last_call, uiVars, threadVars, monitorVars, gateVars, obsVars, watchVars,
                   emitVars, job_log, fn_args>>

SpecScript == InitScript /\ [][run_script_filter]_vars

\* C19 as stated: the text that is hashed and stored is the script's stdout
\* if and only if the script exits with code 0; on a non-zero exit, a timeout
\* or a spawn failure it is the original text.
C19_StdoutIffExitZero ==
    fn_result # NotRun =>
        fn_result = IF fn_args.run.end = "exit" /\ fn_args.run.returncode = 0
                    THEN fn_args.run.stdout
                    ELSE fn_args.text

\* C19, amended: the text that is hashed and stored is the script's stdout
\* with leading and trailing whitespace removed when the script exits with
\* code 0 and has written something; on a non-zero exit, a timeout, a spawn
\* failure or an empty stdout it is the original text.  The filter always
\* hands on a text: no error is propagated.
C19_StrippedStdoutOnSuccess ==
    fn_result # NotRun =>
        fn_result = IF /\ fn_args.run.end = "exit"
                       /\ fn_args.run.returncode = 0
                       /\ fn_args.run.stdout # <<>>
                    THEN strip(fn_args.run.stdout)
                    ELSE fn_args.text

\* the script exited with code 0 after writing "a ", and a is handed on in
\* place of the text b
C19_Witness ==
    /\ fn_args = [text |-> TextB, run |-> ScriptRun(0, <<"a", " ">>)]
    /\ fn_result = TextA

----------------------------------------------------------------------------
\* Properties of the lock (checked under SpecLock).

\* C17: every read and every write of last_hash happens while _state_lock is
\* held by the caller making it: a caller about to compare last_hash, to
\* assign it in the gate or to set it in the incognito branch holds the lock
\* until it has left the with block, and last_hash changes in no step but the
\* assignment of the caller holding the lock.
C17_LockedAccess ==
    /\ [](\A c \in Callers :
             gate_pc[c] \in {"compare", "assign", "set", "release"} => state_lock = c)
    /\ [][last_hash' # last_hash =>
             /\ state_lock \in Callers
             /\ gate_pc[state_lock] \in {"assign", "set"}
             /\ last_hash' = gate_arg[state_lock]
             /\ state_lock' = state_lock]_vars

\* a caller of the incognito branch holds the lock and is about to set
\* last_hash, after another caller has been through the gate, while a third
\* waits for the lock
C17_Witness ==
    \E c \in Callers, d \in Callers, e \in Callers :
        /\ gate_pc[c] = "set" /\ state_lock = c /\ last_hash # gate_arg[c]
        /\ gate_pc[d] = "done" /\ gate_ret[d] /\ last_hash = gate_arg[d]
        /\ gate_pc[e] \in {"acquire", "iacquire"}

----------------------------------------------------------------------------
\* Properties of the image worker (checked under SpecStop).

\* C11: a job that raises does not end the worker thread.  Whatever a job
\* does, the worker leaves it for the loop test with the queue as it was; the
\* worker has left its loop only when stop() was called; and as long as
\* stop() has not been called the worker can take its next step, so that a job
\* queued behind a failing job is dequeued and processed.
C11_WorkerSurvivesJob ==
    /\ [][(worker_pc = "job" /\ worker_pc' # "job")
            => /\ worker_pc' = "wait"
               /\ image_queue' = image_queue]_vars
    /\ [](worker_pc = "exit" => image_worker_stop)
    /\ [](~image_worker_stop =>
            /\ worker_pc = "wait" => ENABLED worker_test
            /\ (worker_pc = "get" /\ image_queue # <<>>) => ENABLED worker_get
            /\ worker_pc = "job" => ENABLED worker_store)

\* a job has raised, a job queued behind it has been stored, and the worker
\* is in its loop
C11_Witness ==
    /\ job_log = "recovered"
    /\ ~image_worker_stop
    /\ worker_pc = "get"
    /\ clips # {}

----------------------------------------------------------------------------
\* Properties of the notifications (checked under SpecNotify).

\* C12: new-clip(id) is emitted exactly once per stored clip: no clip id is
\* notified twice, and every clip stored by the text path has been notified.
C12_NotifiedOnce ==
    /\ \A i \in RowIds : notified[i] <= 1
    /\ \A c \in clips : notified[c.id] >= 1

----------------------------------------------------------------------------
\* Properties of shutdown (checked under SpecStop).

\* nothing that a source produced is waiting to be processed
Quiet ==
    /\ inflight = EmptyBag
    /\ wl_stdout = <<>>
    /\ idle_queue = <<>>
    /\ main_pc = "idle"
    /\ \A k \in 1..Len(image_queue) : image_queue[k] = NoJob
    /\ worker_item = NoJob

\* C13: after stop() has returned every capture source is terminated.  No
\* step issues a clipboard read; and once nothing produced before stop() is
\* left to process, nothing is produced again: no read is in flight, no
\* watcher line or snapshot is waiting, last_hash does not change, no image job
\* is enqueued and no clip is stored.
C13_StoppedSourcesSilent ==
    [][image_worker_stop =>
          /\ \A r \in Reads : CopiesIn(r, inflight') <= CopiesIn(r, inflight)
          /\ Quiet => /\ Quiet'
                      /\ last_hash' = last_hash
                      /\ clips' = clips]_vars

\* C14 (checked under SpecShutdown): after stop() is called the image worker
\* thread eventually leaves its loop, wherever it was: waiting on an empty
\* queue, in the middle of a job, or behind a full queue that took no sentinel.
C14_WorkerExits == image_worker_stop ~> worker_pc = "exit"

\* the worker has left its loop although stop() found the queue full and
\* could not enqueue the sentinel: the queue still holds its jobs
C14_Witness ==
    /\ image_worker_stop
    /\ worker_pc = "exit"
    /\ Len(image_queue) = QueueMaxSize
    /\ \A k \in 1..Len(image_queue) : image_queue[k] # NoJob

\* C15 (checked under SpecStop): stop() terminates the watcher subprocess for
\* every interleaving of stop() with the watcher thread: once stop() has been
\* called no wl-paste subprocess is running.
C15_WatcherTerminated == image_worker_stop => wl_paste # "running"

----------------------------------------------------------------------------
\* Properties of the background threads (checked under SpecStop).

\* C18: the watcher thread and the image worker thread write no field of the
\* monitor and emit no new-clip: a step of either thread leaves last_hash,
\* _paused, _is_incognito, _poll_source_id, _wl_image_watch_process,
\* _wl_image_watch_active and the stop flag as they are and notifies nobody;
\* what it hands to the owning context is a task posted with GLib.idle_add.
C18_ThreadsOnlyPost ==
    [][(\/ watch_spawn \/ watch_thread \/ watch_eof
        \/ worker_test \/ worker_timeout \/ worker_get \/ worker_store)
       => /\ UNCHANGED <<last_hash, paused, is_incognito, poll_source_id,
                         wl_image_watch_process, wl_image_watch_active,
                         image_worker_stop>>
          /\ notified' = notified]_vars

----------------------------------------------------------------------------
\* Properties of failures (checked under SpecStop).

\* C20: a job whose storing failed is retried by the next trigger.  When the
\* job made from a texture read raises in the worker while its image is still
\* on the clipboard and no watcher snapshot is on its way, the gate is left
\* ready to accept that content from the next read: last_hash is not its
\* hash, unless the content is stored already or queued again.
C20_FailureReopensGate ==
    [][(/\ worker_pc = "job" /\ worker_pc' = "wait" /\ clips' = clips
        /\ worker_item.sized
        /\ clipboard.kind = "image"
        /\ texture_png(clipboard.data) = worker_item.image_data
        /\ wl_stdout = <<>> /\ idle_queue = <<>>)
       => LET h == compute_hash(worker_item.image_data)
          IN  \/ last_hash' # h
              \/ \E c \in clips : c.content_hash = h
              \/ \E k \in 1..Len(image_queue) :
                    image_queue[k] # NoJob /\ image_queue[k].image_data = worker_item.image_data
              \/ pending_job # NoJob /\ pending_job.image_data = worker_item.image_data]_vars

----------------------------------------------------------------------------
\* Properties of the incognito mode (checked under SpecIncognito).

\* nothing is recorded in this step: no Store call, no image job accepted for
\* the queue, no new-clip emitted or posted, no title fetch started
NothingRecorded ==
    /\ UNCHANGED <<clips, next_id, now>>
    /\ UNCHANGED <<image_queue, pending_job, main_pc>>
    /\ UNCHANGED <<notified, emit_queue, title_fetch>>

----------------------------------------------------------------------------
\* Properties of accepted image jobs (checked under SpecStop).

\* C21: no accepted image is lost.  A job that the gate accepted leaves the
\* image queue only by being handed to the worker, which stores it; and the
\* worker does not end while a job is still queued.
C21_NoJobLost ==
    /\ [][(/\ image_queue # <<>>
           /\ Head(image_queue) # NoJob
           /\ image_queue' = Tail(image_queue))
          => worker_pc' = "job" /\ worker_item' = Head(image_queue)]_vars
    /\ [](worker_pc = "exit" =>
             \A k \in 1..Len(image_queue) : image_queue[k] = NoJob)

\* C30: the image queue is first-in first-out with a single consumer.  The
\* queue changes only by an item appended at its end or by its oldest item
\* removed; the worker takes a job only when it holds none, and the job it
\* takes is the oldest one queued; every Store call of the pipeline stores the
\* job the worker holds.  Jobs that are not dropped are therefore stored in
\* the order they were enqueued.
C30_FifoSingleConsumer ==
    [][/\ \/ image_queue' = image_queue
          \/ image_queue # <<>> /\ image_queue' = Tail(image_queue)
          \/ /\ Len(image_queue') = Len(image_queue) + 1
             /\ SubSeq(image_queue', 1, Len(image_queue)) = image_queue
       /\ worker_item' # worker_item /\ worker_item' # NoJob =>
             /\ worker_item = NoJob
             /\ image_queue # <<>>
             /\ worker_item' = Head(image_queue)
             /\ image_queue' = Tail(image_queue)
       /\ clips' # clips =>
             /\ worker_pc = "job"
             /\ \E c \in clips' :
                   /\ c.content_hash = compute_hash(worker_item.image_data)
                   /\ c.used_at = now']_vars

\* two accepted jobs are in the pipeline: the worker holds the one enqueued
\* first while the one the gate accepted last waits in the queue
C30_Witness ==
    /\ worker_pc = "job"
    /\ Len(image_queue) = 1
    /\ image_queue[1] # NoJob
    /\ image_queue[1] # worker_item
    /\ last_hash = compute_hash(image_queue[1].image_data)

----------------------------------------------------------------------------
\* Properties of the return from incognito mode (checked under SpecText).

\* C28: what was marked in incognito mode is not recorded afterwards, and
\* other content is.  With recording enabled and no filter script, a text
\* read whose stripped text has the hash held in last_hash changes neither
\* the store nor last_hash and notifies nobody; a text read of any other
\* content either fails, leaving everything as it was, or sets last_hash to
\* that content's hash and stores it in the same step.
C28_MarkedStaysOut ==
    [][\A r \in Reads :
          (on_text_read(r) /\ ~is_incognito /\ ~paused /\ ~script_path) =>
             LET h == compute_hash(strip(r.data))
             IN  IF last_hash = h
                 THEN UNCHANGED <<clips, next_id, now, last_hash, notified>>
                 ELSE \/ UNCHANGED <<clips, next_id, now, last_hash, notified>>
                      \/ /\ last_hash' = h
                         /\ \E c \in clips' :
                               /\ c.content_hash = h
                               /\ c.used_at = now'
                               /\ notified' = emit_new_clip_signal(c.id)]_vars

\* incognito mode was switched off after text a had been marked: a is on the
\* clipboard, last_hash is its hash, no clip was accepted since it was copied
\* and nothing is stored
C28_Witness ==
    /\ ~is_incognito /\ ~paused /\ ~script_path
    /\ clipboard = TextContent(TextA)
    /\ last_hash = compute_hash(TextA)
    /\ epoch_clean /\ epoch_accepts = 0
    /\ clips = {}

----------------------------------------------------------------------------
\* Properties of the removal of blob files (checked under SpecStore).

\* C24: a blob file that cannot be removed does not keep its row.  delete_clip
\* leaves exactly the rows with another id, clear_unpinned exactly the pinned
\* and favorite rows, and add_clip of a new content exactly what the eviction
\* leaves, whichever removals failed in the step; and a row whose file
\* removal has failed is not in the table.
C24_RemovalFailureSwallowed ==
    /\ [][/\ \A i \in RowIds :
                delete_clip(i) => clips' = {c \in clips : c.id # i}
          /\ clear_unpinned => clips' = clips \ Unprotected(clips)
          /\ \A a \in ClipArgs :
                (db_add_clip(a) /\ ~HashStored(clips, a.content_hash)) =>
                    clips' \in auto_cleanup(clips \cup {NewRow(next_id, a, now')},
                                           max_history_limit(max_history))]_vars
    /\ [](\A i \in remove_failed : \A c \in clips : c.id # i)

\* the blob file of image row 1 could not be removed and no row is left
C24_Witness ==
    /\ 1 \in remove_failed
    /\ clips = {}

----------------------------------------------------------------------------
\* Properties of a failed format negotiation (checked under SpecNegotiate).

\* C29: an error of the format negotiation is not fatal.  A trigger whose
\* negotiation raises changes nothing: last_hash, the image queue, the store
\* and the reads in flight are as before.  After it, whenever the main loop is
\* idle, recording is on, the clipboard holds content and another read can be
\* issued, the change signal and the poll tick negotiate again and issue the
\* read.
C29_NegotiationErrorHarmless ==
    /\ [][((on_clipboard_changed \/ poll_clipboard) /\ negotiation' = "error") =>
             UNCHANGED <<dbVars, last_call, uiVars, threadVars, monitorVars, gateVars, watchVars, emitVars,
                         job_log, fnVars, mid_reads, epoch_accepts, epoch_clean,
                         submit_log>>]_vars
    /\ []((/\ negotiation = "error"
           /\ main_pc = "idle" /\ ~paused /\ clipboard.kind # "none"
           /\ BagCardinality(inflight) < MaxInflight)
          => /\ ENABLED (on_clipboard_changed /\ negotiation' = "retried")
             /\ poll_source_id =>
                   ENABLED (poll_clipboard /\ negotiation' = "retried"))

\* a negotiation has raised with text a on the clipboard and nothing was
\* read; a later trigger has issued the read
C29_Witness ==
    /\ negotiation = "retried"
    /\ clipboard = TextContent(TextA)
    /\ inflight = One(TextRead(TextA))
    /\ last_hash = None
    /\ clips = {}

----------------------------------------------------------------------------
\* Properties of the hash of text clips (checked under SpecEdit).

\* C23: the content hash of a text clip is the hash of the text it stores.
\* Every clip of the text pipeline has content_hash = hash(text_content), also
\* after update_clip_text; and the row a text read creates holds a text that
\* is stripped.
C23_HashOfStoredText ==
    /\ [](\A c \in clips :
             c.content_type = "text" /\ c.content_hash = compute_hash(c.text_content))
    /\ [][\A r \in Reads :
             on_text_read(r) =>
                \A c \in clips' :
                   (\A d \in clips : d.id # c.id) =>
                       c.text_content = strip(c.text_content)]_vars

\* the only clip ever created was captured as text a and edited to text b
C23_Witness ==
    /\ next_id = 2
    /\ last_hash = compute_hash(TextA)
    /\ \E c \in clips :
          /\ c.id = 1
          /\ c.text_content = TextB
          /\ c.content_hash = compute_hash(TextB)

----------------------------------------------------------------------------
\* Properties of the poll (checked under SpecPoll).

\* the clock or the row ids of the model are used up: no clip can be stored
Exhausted == now = MaxTime \/ next_id > MaxRows

\* C22 as stated: a text that stays on the clipboard is eventually in the
\* store, whatever was captured, deleted or evicted before.
C22_HeldTextStored ==
    \A t \in RawTexts :
        (clipboard = TextContent(t))
            ~> \/ HashStored(clips, compute_hash(strip(t)))
               \/ clipboard # TextContent(t)
               \/ Exhausted

\* C22, amended: a text that stays on the clipboard eventually reaches the
\* gate, so that last_hash is its hash; and a text read that changes
\* last_hash stores the clip of that hash in the same step.  A clip that is
\* deleted or evicted while its text stays on the clipboard is not stored
\* again, the gate rejecting the text.
C22_HeldTextReachesGate ==
    /\ \A t \in RawTexts :
          (clipboard = TextContent(t))
              ~> \/ last_hash = compute_hash(strip(t))
                 \/ clipboard # TextContent(t)
                 \/ Exhausted
    /\ [][\A r \in Reads :
             (on_text_read(r) /\ last_hash' # last_hash) =>
                 HashStored(clips', last_hash')]_vars
    /\ [][\A r \in Reads :
             (on_text_read(r) /\ last_hash = compute_hash(strip(r.data))) =>
                 clips' = clips]_vars

\* text a was captured by the poll and its clip deleted; a is still on the
\* clipboard, last_hash is its hash, no read is in flight and the store is
\* empty
C22_Witness ==
    /\ clipboard = TextContent(TextA)
    /\ last_hash = compute_hash(TextA)
    /\ next_id = 2
    /\ inflight = EmptyBag
    /\ clips = {}

----------------------------------------------------------------------------
\* ContentDetector as a function of the text (checked under SpecDetect).

\* number of times the detector is applied to the drawn text
MaxCalls == 2

InitDetect ==
    /\ InitProgram
    /\ negotiation = "unobserved"
    /\ image_files = DiskUnobserved
    /\ fn_args \in [text : DetectTexts]
    /\ fn_result = NotRun

\* ContentDetector.detect and ContentDetector.detect_sensitive are applied
\* to the drawn text; fn_result holds, call after call, what each returned
run_detector ==
    /\ Len(fn_result) < 1 + 2 * MaxCalls
    /\ fn_result' = (IF fn_result = NotRun THEN <<"detect">> ELSE fn_result)
                        \o <<detect(fn_args.text), detect_sensitive(fn_args.text)>>
    /\ UNCHANGED <<dbVars, last_call, uiVars, threadVars, monitorVars, gateVars, obsVars, watchVars,
                   emitVars, job_log, fn_args>>

SpecDetect == InitDetect /\ [][run_detector]_vars

\* the calls made so far, what detect returned at a call and what
\* detect_sensitive returned at it
DetectCalls == 1..((Len(fn_result) - 1) \div 2)
DetectResult(k) == fn_result[2 * k]
SensitiveResult(k) == fn_result[2 * k + 1]

\* the rules of the cascade in the order color, url, email, phone, code,
\* text with urls, plain text, each as a predicate of the trimmed text
RuleHolds(rule, text) ==
    LET stripped == strip(text)
    IN  CASE rule = 1 ->
               /\ Len(stripped) < 30
               /\ HEX_COLOR_PATTERN(stripped) \/ RGB_COLOR_PATTERN(stripped)
          [] rule = 2 -> is_url(stripped)
          [] rule = 3 -> is_email(stripped)
          [] rule = 4 -> Len(stripped) < 25 /\ is_phone(stripped)
          [] rule = 5 -> is_code(stripped)
          [] rule = 6 -> \E i \in 1..Len(stripped) : URL_PATTERN(stripped, i)
          [] rule = 7 -> TRUE

FirstRule(text) ==
    CHOOSE rule \in 1..7 :
        /\ RuleHolds(rule, text)
        /\ \A earlier \in 1..(rule - 1) : ~RuleHolds(earlier, text)

RuleCategory == <<"color", "url", "email", "phone", "code", "text", "text">>

\* C25: detect is a deterministic first-match-wins cascade in the order
\* color, url, email, phone, code, text with urls, plain text.  Every call
\* returns the category of the first rule in this order whose predicate
\* holds for the text (and, for a text, the subtype that tells the text with
\* urls from the plain one), whatever later rules match, and two calls on
\* the same text return the same result.
C25_FirstMatchWins ==
    \A k \in DetectCalls :
        LET first == FirstRule(fn_args.text)
        IN  /\ DetectResult(k).category = RuleCategory[first]
            /\ first = 6 => DetectResult(k).subtype = "with_urls"
            /\ first = 7 => DetectResult(k).subtype = "none"
            /\ \A j \in DetectCalls : DetectResult(j) = DetectResult(k)

\* detect was called twice on a text whose first line is a URL and whose
\* other lines are comments of a code: the url, the code and the
\* text-with-urls rules all hold and the url rule wins
C25_Witness ==
    /\ Len(fn_result) = 1 + 2 * MaxCalls
    /\ FirstRule(fn_args.text) = 2
    /\ RuleHolds(5, fn_args.text)
    /\ RuleHolds(6, fn_args.text)
    /\ DetectResult(2).category = "url"

\* C26: whenever detect classifies a text as email or phone the sensitive
\* flag it returns is False, even if detect_sensitive holds for the text; for
\* every other category the flag equals detect_sensitive(text).
C26_FlagForcedFalse ==
    \A k \in DetectCalls :
        DetectResult(k).is_sensitive =
            IF DetectResult(k).category \in {"email", "phone"}
            THEN FALSE
            ELSE SensitiveResult(k)

\* a text is classified as an email although detect_sensitive holds for it,
\* and the flag returned is False
C26_Witness ==
    /\ DetectCalls # {}
    /\ DetectResult(1).category = "email"
    /\ SensitiveResult(1)
    /\ ~DetectResult(1).is_sensitive

\* C27: the high-entropy rule fires only when the trimmed text has no
\* embedded whitespace of any kind (space, tab or newline), its length L
\* satisfies 12 < L < 128, and it contains an uppercase letter, a lowercase
\* letter, a digit and a symbol; a text with an embedded tab or newline that
\* matches no fixed key pattern is not sensitive.
C27_HighEntropyRule ==
    \A k \in DetectCalls :
        LET stripped == strip(fn_args.text)
        IN  /\ (SensitiveResult(k) /\ ~key_pattern(fn_args.text)) =>
                   /\ occurrences(stripped, Whitespace) = 0
                   /\ Len(stripped) > 12
                   /\ Len(stripped) < 128
                   /\ occurrences(stripped, Upper) > 0
                   /\ occurrences(stripped, Lower) > 0
                   /\ occurrences(stripped, Digit) > 0
                   /\ occurrences(stripped, Symbol) > 0
            /\ (occurrences(stripped, {"\t", "\n"}) > 0 /\ ~key_pattern(fn_args.text)) =>
                   ~SensitiveResult(k)

----------------------------------------------------------------------------
\* The bulk clear, the edit dialog and the flags (checked under SpecClear,
\* SpecEditDialog and SpecStore).

\* C31: clear_unpinned deletes exactly the clips with pinned = 0 and
\* favorite = 0: every clip that is pinned or favorite is left as it was, and
\* so are the collections and the settings.
C31_ClearsExactlyUnprotected ==
    [][clear_unpinned =>
          /\ clips' = {c \in clips : c.pinned \/ c.favorite}
          /\ collections' = collections
          /\ max_history' = max_history
          /\ script_path' = script_path]_vars

\* three clips were stored and max_history was never set, so that none was
\* evicted; the history was cleared with a pinned clip filed in a collection
\* and a favorite clip in the store: these two are left, the third is gone
C31_Witness ==
    /\ next_id = 4
    /\ max_history = Unset
    /\ script_path
    /\ collections # {}
    /\ Cardinality(clips) = 2
    /\ \E c \in clips : c.pinned /\ ~c.favorite /\ c.collection_id \in collections
    /\ \E c \in clips : c.favorite /\ ~c.pinned

\* the table after the UPDATE of update_clip_text has changed row clip_id
Edited(cs, clip_id, new_text) ==
    {IF c.id = clip_id
     THEN [c EXCEPT !.text_content = new_text,
                    !.content_hash = compute_hash(new_text),
                    !.preview = truncate_text(new_text, PreviewLen)]
     ELSE c : c \in cs}

\* the hash of new_text belongs to a clip other than clip_id
HashTaken(cs, clip_id, new_text) ==
    \E d \in cs : d.id # clip_id /\ d.content_hash = compute_hash(new_text)

\* C36 as stated: update_clip_text(id, t) either updates text_content,
\* content_hash and preview of clip id together and returns True, or, when
\* hash(t) already belongs to another live clip, returns False and leaves
\* every clip unchanged.
C36_UpdateOrReject ==
    [][\A i \in RowIds, t \in EditTexts \cup RawTexts \cup {LongText} :
          update_clip_text(i, t) =>
              \/ /\ \E c \in clips : c.id = i
                 /\ clips' = Edited(clips, i, t)
                 /\ returned' = "True"
              \/ /\ HashTaken(clips, i, t)
                 /\ clips' = clips
                 /\ returned' = "False"]_vars

\* C36, amended: for a clip id that exists, update_clip_text(id, t) returns
\* False and leaves every clip unchanged when hash(t) belongs to another
\* clip, and otherwise updates text_content, content_hash and preview of
\* clip id together, leaves the other clips unchanged and returns True; for
\* an id that does not exist it returns True and changes no clip.
C36_UpdateOrRejectExisting ==
    [][\A i \in RowIds, t \in EditTexts \cup RawTexts \cup {LongText} :
          update_clip_text(i, t) =>
              IF \E c \in clips : c.id = i
              THEN IF HashTaken(clips, i, t)
                   THEN clips' = clips /\ returned' = "False"
                   ELSE clips' = Edited(clips, i, t) /\ returned' = "True"
              ELSE clips' = clips /\ returned' = "True"]_vars

\* a clip was given a text longer than its preview, and the edit of another
\* clip to a text that is already stored was rejected
C36_Witness ==
    /\ returned = "False"
    /\ Cardinality(clips) = 2
    /\ \E c \in clips :
          /\ c.text_content = LongText
          /\ Len(c.preview) = PreviewLen
          /\ c.preview[PreviewLen] = "..."

\* the table with the flag of row clip_id inverted
Flipped(cs, clip_id, flag) ==
    {IF c.id = clip_id
     THEN CASE flag = "pinned" -> [c EXCEPT !.pinned = ~c.pinned]
            [] flag = "is_snippet" -> [c EXCEPT !.is_snippet = ~c.is_snippet]
            [] flag = "favorite" -> [c EXCEPT !.favorite = ~c.favorite]
     ELSE c : c \in cs}

\* the flag of row clip_id as the toggles return it, False without the row
FlagOf(cs, clip_id, flag) ==
    IF \E c \in cs :
          /\ c.id = clip_id
          /\ CASE flag = "pinned" -> c.pinned
               [] flag = "is_snippet" -> c.is_snippet
               [] flag = "favorite" -> c.favorite
    THEN "True" ELSE "False"

\* a step of the toggle of the given flag on clip_id does what C37 says
ToggleStep(clip_id, flag) ==
    /\ clips' = Flipped(clips, clip_id, flag)
    /\ returned' = FlagOf(clips', clip_id, flag)
    /\ (~\E c \in clips : c.id = clip_id) => clips' = clips /\ returned' = "False"
    /\ UNCHANGED <<next_id, now, max_history, script_path, remove_failed,
                   image_files, collections>>

\* C37: toggle_pin, toggle_favorite and toggle_snippet each flip exactly one
\* flag of exactly the clip with the given id, return the new value of the
\* flag and change nothing else; for an id that does not exist they return
\* False and change nothing; and applying the same toggle twice restores
\* the original state (a toggle step inverting the flag, inverting it twice
\* gives the table back).
C37_TogglesFlipOneFlag ==
    /\ [][\A i \in RowIds :
             /\ toggle_pin(i) => ToggleStep(i, "pinned")
             /\ toggle_snippet(i) => ToggleStep(i, "is_snippet")
             /\ toggle_favorite(i) => ToggleStep(i, "favorite")]_vars
    /\ [](\A i \in RowIds, flag \in {"pinned", "is_snippet", "favorite"} :
             Flipped(Flipped(clips, i, flag), i, flag) = clips)

\* the three flags of a clip were switched on and the pin of another clip
\* was switched on and off again, the last toggle returning False; a third
\* clip was never touched
C37_Witness ==
    /\ returned = "False"
    /\ Cardinality(clips) = 3
    /\ \E c \in clips : c.pinned /\ c.is_snippet /\ c.favorite
    /\ Cardinality({c \in clips : ~c.pinned /\ ~c.is_snippet /\ ~c.favorite}) = 2

----------------------------------------------------------------------------
\* Eviction under concurrent inserts (checked under SpecEvict).

\* C32: when the worker thread and the owning context both insert through
\* add_clip at the same time, an eviction never leaves fewer unpinned,
\* non-favorite clips than min(max_history, number present before it).
C32_NeverOverEvicts ==
    [][\A th \in Threads :
          add_pc[th] = "counted" /\ add_pc'[th] = "idle"
          => Cardinality(Unprotected(clips')) >=
                Min(max_history_limit(max_history),
                    Cardinality(Unprotected(clips)))]_vars

\* C33: for any interleaving of the worker's write-files-then-add_clip
\* sequence for a hash with a delete_clip, clear_unpinned or eviction of a
\* stored clip with the same hash on the owning context, every image row of
\* the table has its files in IMAGES_DIR, unless os.remove has failed for it.
C33_BlobFilesExist ==
    \A c \in clips : c.content_type = "image" => c.content_hash \in image_files

----------------------------------------------------------------------------
\* The text path and the pause (checked under SpecText and SpecImage).

\* C35: the text path never stores a clip with empty text and never sets
\* last_hash to the hash of the empty string: empty or whitespace-only text
\* is dropped before the gate, also when the text becomes empty after the
\* script filter has replaced it.
C35_NoEmptyText ==
    /\ \A c \in clips : c.content_type = "text" => c.text_content # <<>>
    /\ last_hash # compute_hash(<<>>)

\* C34: while paused is true no capture path changes state: a change
\* signal, a poll tick, a watcher snapshot and the completion of a text read
\* or of a texture read that was issued before the pause all leave last_hash
\* unchanged, enqueue no image job and store no clip.
C34_PausedCapturesNothing ==
    [][(/\ paused
        /\ \/ on_clipboard_changed
           \/ poll_clipboard
           \/ watch_thread
           \/ process_wl_image_snapshot
           \/ \E r \in Reads : on_text_read(r) \/ on_texture_read(r))
          => /\ last_hash' = last_hash
             /\ image_queue' = image_queue
             /\ pending_job' = pending_job
             /\ clips' = clips]_vars

====
